---- MODULE Spec2Model ----
(***************************************************************************)
(* State-machine model of sonogen (src/src/sonogen.cc): the App object     *)
(* that drives a GStreamer pipeline through START -> DURATION -> SEEK ->   *)
(* GENERATE -> DONE and paints one canvas column per spectrum message.     *)
(*                                                                         *)
(* Every GLib callback is one atomic action (the main loop dispatches one  *)
(* bus message at a time).  The pipeline is the environment: it may post   *)
(* any message the program has connected a handler for, and every call     *)
(* into it that the code tests for failure may fail.  A C++ exception      *)
(* thrown by a handler is taken to reach the catch clause of App::run().   *)
(* Doubles are modelled by exact rational arithmetic on integers; where    *)
(* the rounding of a float constant decides a byte, the byte is the one    *)
(* the build's floating-point evaluation method gives.                     *)
(*                                                                         *)
(* Specifications:                                                         *)
(*   Spec            the whole program, spectrum messages only             *)
(*   SpecElement     one run with level and unhandled messages as well     *)
(*   SpecBenchmark   --benchmark: later runs get the first run's           *)
(*                   notifications again                                   *)
(*   SpecConstructor the body of App::App on its own                       *)
(*   SpecPainter     paint_spectrum_at_offset called on its own            *)
(*   SpecLive        one run on a pipeline that eventually delivers what   *)
(*                   the run is waiting for                                *)
(*   SpecBands       the band count start_pipeline derives from the        *)
(*                   options and the sampling rate                         *)
(*   SpecGrid        the generating pass of a run with --grid, for the     *)
(*                   time axis draw_sonogram puts under the image          *)
(*   SpecThumbnailer the thumbnailer (src/src/soundprint.cc)               *)
(***************************************************************************)
EXTENDS Integers, Sequences, FiniteSets, TLC

(* ---------------------------- program constants ------------------------ *)

STATE_START == 0
STATE_DURATION == 1
STATE_SEEK == 2
STATE_GENERATE == 3
STATE_DONE == 4

DEFAULT_WIDTH == 0
DEFAULT_DURATION == 0
DEFAULT_NOISE_FLOOR == -100
\* lengths of the marks on the axes of the grid
GRID_MARKER_LARGE == 6
GRID_MARKER_MED == 4

\* process exit status: still running, exit(0), exit(1), abort() from g_error
EXIT_NONE == -1
EXIT_OK == 0
EXIT_FAILURE == 1
EXIT_ABORT == 134
\* killed by SIGFPE (integer division by zero)
EXIT_SIGFPE == 136
\* killed by SIGSEGV (read through an iterator that points at no element)
EXIT_SIGSEGV == 139
\* GST_CLOCK_TIME_NONE read as a gint64
GST_CLOCK_TIME_NONE == -1

(* ------------------------------- bounds -------------------------------- *)
\* largest --width option tried (the other one is MaxWidth - 1)
MaxWidth == 3
\* the clock counts ticks of 1/TicksPerSecond s instead of nanoseconds
TicksPerSecond == 4
\* last end time the pipeline may stamp on a spectrum message, in ticks
MaxTick == 6
\* largest --resolution option tried
MaxResolution == 2
\* value of --benchmark when it is given
MaxBenchmark == 2
\* most messages without effect (info, warning, unknown element message)
\* counted in a run
MaxIgnored == 1
\* most notifications of the first run that are recorded for the later runs
MaxNotifications == 7
\* most direct painter calls made on one canvas
MaxPaints == 2
\* largest --duration option given to the constructor (seconds)
MaxDuration == 3
\* largest --height and --max-frequency options and largest sampling rate
\* tried for the band count
MaxHeight == 3
MaxFrequency == 5
MaxRate == 12

\* one second in clock units (10^9 ns in the source)
GST_SECOND == TicksPerSecond
EndTimes == 1..MaxTick

Widths == {DEFAULT_WIDTH, MaxWidth - 1, MaxWidth}
Resolutions == 1..MaxResolution
Durations == {DEFAULT_DURATION}
Benchmarks == {0, MaxBenchmark}
Heights == {2}
MaxFrequencies == {4}
SamplingRates == {12}
\* stream lengths the pipeline may report to a duration query
StreamDurations == {2 * GST_SECOND - 1}
\* per-band magnitudes (dB) carried by a spectrum message
DbLevels == {DEFAULT_NOISE_FLOOR, -50, 0}

\* C integer division: truncation toward zero (d > 0)
TruncDiv(n, d) == IF n >= 0 THEN n \div d ELSE -((-n) \div d)

Min(a, b) == IF a < b THEN a ELSE b
Max(a, b) == IF a > b THEN a ELSE b

(* ------------------------------- state --------------------------------- *)
VARIABLES
    options,            \* the AppOptions parsed by main(), copied by every App
    iteration,          \* loop index i of main()'s benchmark loop
    exit_code,          \* EXIT_NONE while the process runs
    error_what,         \* e.what() of the exception caught by run(), or ""
    m_mainloop,         \* "none" | "created" | "running" | "quit"
    m_options,          \* App::m_options (the App's private copy)
    m_state,
    m_prerolled,
    m_decoder_pad,      \* TRUE iff m_decoder_pad is non-null
    m_duration,
    m_sampling_rate,
    num_bands,          \* "bands" property set on the spectrum element
    m_cr,               \* TRUE iff the cairo context (and surface) exists
    m_surface,          \* pixel buffer: linear index -> alpha byte
    m_sample_no,
    m_levels,           \* level track: timestamp (clock units) -> level (dB)
    m_peak_rms,
    m_min_rms,
    last_px,            \* function-static of on_spectrum: shared by all Apps
    async_done_handlers,        \* handlers connected to message::async-done
    duration_changed_handlers,  \* handlers connected to message::duration-changed
    pipeline_state,     \* "NULL" | "PAUSED" | "PLAYING"
    stream_pos,         \* end time of the last spectrum message posted
    image_written,      \* number of write_to_png calls that succeeded in this run
    painted,            \* columns handed to the painter so far in this run
    last_cols,          \* columns handed to the painter by the last handler
    heap_corrupt,       \* a pixel write landed outside the pixel buffer
    invalid_read,       \* m_levels.rbegin() was dereferenced on an empty map
    time_axis,          \* second marks draw_sonogram has put on the time axis
    flt_eval,           \* FLT_EVAL_METHOD of the build (0 or 2)
    ignored,            \* history: messages dispatched that no handler acts on
    notifications,      \* history: the notifications of the first run, in order
    replayed,           \* history: how many of them a later run has been given
    first_canvas,       \* history: canvas and painted columns of the first run
    painter_call,       \* history: arguments of the last direct painter call
    recorded,           \* history: the values on_level has stored in this run
    soundprint,         \* the App of the thumbnailer (src/src/soundprint.cc),
                        \* a program of its own: << >> where it does not run
    app_constructed     \* FALSE only between the App's member initialisers
                        \* and the body of its constructor

vars == <<options, iteration, exit_code, error_what, m_mainloop, m_options, m_state,
          m_prerolled, m_decoder_pad, m_duration, m_sampling_rate, num_bands,
          m_cr, m_surface, m_sample_no, m_levels, m_peak_rms, m_min_rms,
          last_px, async_done_handlers,
          duration_changed_handlers, pipeline_state, stream_pos,
          image_written, painted, last_cols, heap_corrupt, invalid_read,
          time_axis,
          flt_eval,
          ignored, notifications, replayed, first_canvas, painter_call,
          recorded, soundprint, app_constructed>>

\* the variables no handler of sonogen reads or writes: the history
\* variables, which record what happened, the constructor's progress and
\* the thumbnailer
hist == <<ignored, notifications, replayed, first_canvas, painter_call,
          recorded, soundprint, app_constructed>>

\* The App object and the pipeline it owns, as one record the handlers
\* transform; thrown/exited record how the handler left.
Self ==
    [m_mainloop |-> m_mainloop, m_options |-> m_options, m_state |-> m_state,
     m_prerolled |-> m_prerolled, m_decoder_pad |-> m_decoder_pad,
     m_duration |-> m_duration, m_sampling_rate |-> m_sampling_rate,
     num_bands |-> num_bands, m_cr |-> m_cr, m_surface |-> m_surface,
     m_sample_no |-> m_sample_no, m_levels |-> m_levels,
     m_peak_rms |-> m_peak_rms, m_min_rms |-> m_min_rms, last_px |-> last_px,
     async_done_handlers |-> async_done_handlers,
     duration_changed_handlers |-> duration_changed_handlers,
     pipeline_state |-> pipeline_state, stream_pos |-> stream_pos,
     image_written |-> image_written, painted |-> painted,
     last_cols |-> {}, heap_corrupt |-> heap_corrupt,
     invalid_read |-> invalid_read, time_axis |-> time_axis,
     flt_eval |-> flt_eval,
     thrown |-> FALSE, what |-> "", exited |-> FALSE, crashed |-> FALSE,
     segv |-> FALSE]

\* The pipeline calls whose failure the code tests for.
Calls ==
    {"add_ok", "pause_ok", "seek_ok", "pad_link_ok", "element_link_ok",
     "caps_ok", "write_ok"}

\* Reads with undefined behaviour whose outcome the build decides: the read
\* named either kills the process or yields some value and execution goes on.
UndefinedReads == {"rbegin_ok"}

\* Integer divisions whose divisor can be zero: the division named either
\* traps (SIGFPE) or yields 0 and execution goes on, as the target decides.
UndefinedDivisions == {"div_ok"}

\* Results of the pipeline calls a handler may make: the call named failed
\* (if any) fails, and the decoder's caps give the sampling rate.  Every
\* failed call throws or exits at once, so a second failure in the same
\* handler is never observed: at most one call fails.
Input(failed, rate) ==
    [f \in Calls \cup UndefinedReads \cup UndefinedDivisions \cup {"rate"} |->
        IF f = "rate" THEN rate ELSE f # failed]

Inputs == {Input(failed, rate) :
              failed \in Calls \cup {"none"}, rate \in SamplingRates}

\* throw std::runtime_error(what)
Throw(s, what) == [s EXCEPT !.thrown = TRUE, !.what = what]

(* ------------------------ paint_spectrum_at_offset --------------------- *)
\* floor(255 * clamp(n/d, 0, 1)) for d > 0
ToByte(n, d) ==
    IF n <= 0 THEN 0
    ELSE IF n >= d THEN 255
    ELSE (255 * n) \div d

\* The alpha byte for magnitude v (dB) over noise floor nf, with
\* shade = p/q compared with TX by cross-multiplication.
\* Exact fractions <<numerator, denominator>> in lowest terms, denominator
\* positive, for the constants of the alpha curve.
RECURSIVE GCD(_, _)
GCD(x, y) == IF y = 0 THEN x ELSE GCD(y, x % y)

Rational(n, d) ==
    LET s == IF d < 0 THEN -1 ELSE 1
        g == GCD(IF n < 0 THEN -n ELSE n, IF d < 0 THEN -d ELSE d)
    IN  <<(s * n) \div g, (s * d) \div g>>

RAdd(x, y) == Rational(x[1] * y[2] + y[1] * x[2], x[2] * y[2])
RSub(x, y) == Rational(x[1] * y[2] - y[1] * x[2], x[2] * y[2])
RMul(x, y) == Rational(x[1] * y[1], x[2] * y[2])
RDiv(x, y) == Rational(x[1] * y[2], x[2] * y[1])
One == Rational(1, 1)

\* the inflection point between the two halves of the alpha formula
TX == Rational(6, 10)
TY == Rational(85, 100)
\* multiplier for the first segment, with one factor 1 / TX only
k_single_factor == RMul(RDiv(One, TX), TY)

\* multiplier for the first segment
k == RMul(RMul(RDiv(One, TX), RDiv(One, TX)), TY)
\* slope and offset of the second segment
m == RDiv(RSub(One, TY), RSub(One, TX))
b == RSub(TY, RMul(m, TX))

\* shade = k * shade * shade for shade = p/q, as a byte
QuadraticByte(p, q) == ToByte(k[1] * p * p, k[2] * q * q)

\* the floating-point evaluation methods a build can have: every operation
\* rounded to its type (0), or float operations kept in long double (2)
FloatEvaluations == {0, 2}

\* shade = m * shade + b for shade = p/q, as a byte.  m and b are float:
\* (1.0 - TY) / (1.0 - TX) is computed in double from the floats TX and TY
\* and rounds to the float one unit in the last place below 3/8;
\* TY - m * TX rounds to the float 5/8 when the product is rounded to float
\* first (method 0) and to the next float above 5/8 when it is not (method
\* 2).  For shade > 0 the sum is therefore just below the exact value with
\* method 0 and just above it with method 2, by less than 1/2^22, which
\* changes the byte only where 255 times the exact value is a whole number.
LinearByte(p, q, eval) ==
    LET n == m[1] * b[2] * p + b[1] * m[2] * q
        d == m[2] * b[2] * q
    IN  IF eval = 0 /\ p > 0 /\ n <= d /\ (255 * n) % d = 0
        THEN (255 * n) \div d - 1
        ELSE ToByte(n, d)

\* the alpha curve with the breakpoint at shade = 1/2
AlphaByte_early_linear(v, nf, eval) ==
    LET q == IF nf < 0 THEN -nf ELSE nf
        p == v - nf
    IN  IF 2 * p < q
        THEN QuadraticByte(p, q)
        ELSE LinearByte(p, q, eval)

AlphaByte(v, nf, eval) ==
    LET q == IF nf < 0 THEN -nf ELSE nf
        p == v - nf
    IN  IF p * TX[2] < TX[1] * q
        THEN QuadraticByte(p, q)
        ELSE LinearByte(p, q, eval)

\* A pixel of the FORMAT_ARGB32 canvas as its four bytes in memory order;
\* a new image surface is cleared.
Blank == <<0, 0, 0, 0>>

\* memset (pixel, 0x0, sizeof (guint32)); pixel[3] = byte;
Argb(byte) == [Blank EXCEPT ![4] = byte]

\* pixel index (in 4-byte pixels from the start of the buffer) that band i
\* of a column is written to: row (height - 1 - i), stride = width pixels
PixelIndex(opts, i, offset) == (opts.height - 1 - i) * opts.width + offset

\* paint_spectrum_at_offset() with the test "shade >= 0.0"
paint_spectrum_at_offset_floor_drawn(s, val, offset) ==
    LET opts == s.m_options
        size == Min(Len(val), opts.height)
        drawn == {i \in 0..(size - 1) : val[i + 1] >= opts.noise_floor}
        inside(i) == PixelIndex(opts, i, offset) \in DOMAIN s.m_surface
    IN  [s EXCEPT
           !.m_surface =
               [j \in DOMAIN s.m_surface |->
                   IF \E i \in drawn : PixelIndex(opts, i, offset) = j
                   THEN Argb(AlphaByte(val[1 + CHOOSE i \in drawn :
                                              PixelIndex(opts, i, offset) = j],
                                       opts.noise_floor, s.flt_eval))
                   ELSE s.m_surface[j]],
           !.heap_corrupt = s.heap_corrupt \/ \E i \in drawn : ~inside(i),
           !.m_sample_no = s.m_sample_no + 1,
           !.painted = s.painted \cup {offset},
           !.last_cols = s.last_cols \cup {offset}]

\* paint_spectrum_at_offset() that does not cut the list at the height
paint_spectrum_at_offset_all_bands(s, val, offset) ==
    LET opts == s.m_options
        size == Len(val)
        drawn == {i \in 0..(size - 1) : val[i + 1] > opts.noise_floor}
        inside(i) == PixelIndex(opts, i, offset) \in DOMAIN s.m_surface
    IN  [s EXCEPT
           !.m_surface =
               [j \in DOMAIN s.m_surface |->
                   IF \E i \in drawn : PixelIndex(opts, i, offset) = j
                   THEN Argb(AlphaByte(val[1 + CHOOSE i \in drawn :
                                              PixelIndex(opts, i, offset) = j],
                                       opts.noise_floor, s.flt_eval))
                   ELSE s.m_surface[j]],
           !.heap_corrupt = s.heap_corrupt \/ \E i \in drawn : ~inside(i),
           !.m_sample_no = s.m_sample_no + 1,
           !.painted = s.painted \cup {offset},
           !.last_cols = s.last_cols \cup {offset}]

paint_spectrum_at_offset(s, val, offset) ==
    LET opts == s.m_options
        size == Min(Len(val), opts.height)
        \* bands that pass the "shade > 0.0" test
        drawn == {i \in 0..(size - 1) : val[i + 1] > opts.noise_floor}
        inside(i) == PixelIndex(opts, i, offset) \in DOMAIN s.m_surface
    IN  [s EXCEPT
           !.m_surface =
               [j \in DOMAIN s.m_surface |->
                   IF \E i \in drawn : PixelIndex(opts, i, offset) = j
                   THEN Argb(AlphaByte(val[1 + CHOOSE i \in drawn :
                                              PixelIndex(opts, i, offset) = j],
                                       opts.noise_floor, s.flt_eval))
                   ELSE s.m_surface[j]],
           !.heap_corrupt = s.heap_corrupt \/ \E i \in drawn : ~inside(i),
           !.m_sample_no = s.m_sample_no + 1,
           !.painted = s.painted \cup {offset},
           !.last_cols = s.last_cols \cup {offset}]

(* ------------------------------ draw_sonogram -------------------------- *)
\* The time axis of the grid: one mark per whole second that fits into the
\* width, at x = int(resolution * s), longer every fifth second, and a text
\* "<s>s" under every textN-th mark.
\* a label under every mark, whatever the resolution
textN_every_mark(opts) == 1

textN(opts) ==
    IF opts.res_num <= 10 * opts.res_den THEN 10
    ELSE IF opts.res_num <= 30 * opts.res_den THEN 5
    ELSE 1

TimeAxis(opts) ==
    LET seconds == TruncDiv(opts.width * opts.res_den, opts.res_num)
    IN  {[s |-> s,
          x |-> TruncDiv(opts.res_num * s, opts.res_den),
          markerSize |-> IF s % 5 = 0 THEN GRID_MARKER_LARGE
                         ELSE GRID_MARKER_MED,
          drawText |-> (s % textN(opts)) = 0] : s \in 1..seconds}

\* Stops the pipeline, composes the image and writes it; a failed write is
\* caught inside draw_sonogram and ends the process with exit(1).
\* draw_sonogram() that leaves the pipeline running
draw_sonogram_keeps_playing(s, in) ==
    LET s2 == IF s.m_options.draw_grid
              THEN [s EXCEPT !.time_axis = TimeAxis(s.m_options),
                             !.invalid_read =
                                  s.invalid_read \/ DOMAIN s.m_levels = {}]
              ELSE s
    IN  IF s.m_options.draw_grid /\ DOMAIN s.m_levels = {} /\ ~in.rbegin_ok
        THEN [s2 EXCEPT !.segv = TRUE]
        ELSE IF in.write_ok
        THEN [s2 EXCEPT !.image_written = s.image_written + 1]
        ELSE [s2 EXCEPT !.exited = TRUE]

\* With the grid, the level graph is closed with a line to the time of the
\* last entry of the level track, m_levels.rbegin()->first, whether or not
\* the track has an entry.
draw_sonogram(s, in) ==
    LET s1 == [s EXCEPT !.pipeline_state = "NULL"]
        s2 == IF s.m_options.draw_grid
              THEN [s1 EXCEPT !.time_axis = TimeAxis(s.m_options),
                              !.invalid_read =
                                  s.invalid_read \/ DOMAIN s.m_levels = {}]
              ELSE s1
    IN  IF s.m_options.draw_grid /\ DOMAIN s.m_levels = {} /\ ~in.rbegin_ok
        THEN [s2 EXCEPT !.segv = TRUE]
        ELSE IF in.write_ok
        THEN [s2 EXCEPT !.image_written = s.image_written + 1]
        ELSE [s2 EXCEPT !.exited = TRUE]

(* ------------------------------ start_pipeline ------------------------- *)
start_pipeline(s, in) ==
    IF s.m_sampling_rate = 0
    THEN IF ~in.caps_ok
         THEN Throw(s, "Unable to get caps for decoder output")
         ELSE LET band_freq == TruncDiv(s.m_options.max_frequency,
                                        s.m_options.height)
              IN  IF band_freq = 0
                  THEN IF in.div_ok
                       THEN [s EXCEPT !.m_sampling_rate = in.rate,
                                      !.num_bands = 0,
                                      !.pipeline_state = "PLAYING"]
                       ELSE [s EXCEPT !.m_sampling_rate = in.rate,
                                      !.crashed = TRUE]
                  ELSE [s EXCEPT !.m_sampling_rate = in.rate,
                                 !.num_bands =
                                     TruncDiv(TruncDiv(in.rate, 2), band_freq),
                                 !.pipeline_state = "PLAYING"]
    ELSE [s EXCEPT !.pipeline_state = "PLAYING"]

(* ----------------------------- generate_sonogram ----------------------- *)
\* generate_sonogram() that derives the width from the duration even when a
\* width is configured
generate_sonogram_always_derives(s, in) ==
    LET seconds == TruncDiv(s.m_duration, GST_SECOND)
        width == TruncDiv(s.m_options.res_num * seconds,
                          s.m_options.res_den)
        s1 == [s EXCEPT
                 !.m_options.width = width,
                 !.m_surface = [j \in 0..(width * s.m_options.height - 1)
                                   |-> Blank],
                 !.m_cr = TRUE]
    IN  IF ~in.add_ok
        THEN Throw(s1, "Couldn't add element to pipeline")
        ELSE IF ~in.pad_link_ok
             THEN Throw(s1, "unable to link pad")
             ELSE IF ~in.element_link_ok
                  THEN Throw(s1, "Unable to link")
                  ELSE start_pipeline(s1, in)

generate_sonogram(s, in) ==
    LET seconds == TruncDiv(s.m_duration, GST_SECOND)
        num_samples == TruncDiv(s.m_options.res_num * seconds,
                                s.m_options.res_den)
        width == IF s.m_options.width = 0 THEN num_samples
                 ELSE s.m_options.width
        s1 == [s EXCEPT
                 !.m_options.width = width,
                 !.m_surface = [j \in 0..(width * s.m_options.height - 1)
                                   |-> Blank],
                 !.m_cr = TRUE]
    IN  IF ~in.add_ok
        THEN Throw(s1, "Couldn't add element to pipeline")
        ELSE IF ~in.pad_link_ok
             THEN Throw(s1, "unable to link pad")
             ELSE IF ~in.element_link_ok
                  THEN Throw(s1, "Unable to link")
                  ELSE start_pipeline(s1, in)

(* ------------------------------ reset_pipeline ------------------------- *)
\* reset_pipeline() that does not test the result of the seek
reset_pipeline_unchecked_seek(s, in) ==
    IF ~in.pause_ok
    THEN Throw(s, "Unable to pause pipeline")
    ELSE [s EXCEPT !.pipeline_state = "PAUSED",
                   !.m_prerolled = FALSE,
                   !.stream_pos = 0,
                   !.async_done_handlers = s.async_done_handlers + 1]

\* reset_pipeline() that does not connect the async-done handler
reset_pipeline_no_handler(s, in) ==
    IF ~in.pause_ok
    THEN Throw(s, "Unable to pause pipeline")
    ELSE LET s1 == [s EXCEPT !.pipeline_state = "PAUSED",
                             !.m_prerolled = FALSE]
         IN  IF ~in.seek_ok
             THEN Throw(s1, "Unable to seek to the beginning")
             ELSE [s1 EXCEPT !.stream_pos = 0]

\* reset_pipeline() that also allocates the canvas
reset_pipeline_allocates(s, in) ==
    IF ~in.pause_ok
    THEN Throw(s, "Unable to pause pipeline")
    ELSE LET s1 == [s EXCEPT !.pipeline_state = "PAUSED",
                             !.m_prerolled = FALSE]
         IN  IF ~in.seek_ok
             THEN Throw(s1, "Unable to seek to the beginning")
             ELSE [s1 EXCEPT !.stream_pos = 0,
                             !.m_cr = TRUE,
                             !.async_done_handlers =
                                 s.async_done_handlers + 1]

reset_pipeline(s, in) ==
    IF ~in.pause_ok
    THEN Throw(s, "Unable to pause pipeline")
    ELSE LET s1 == [s EXCEPT !.pipeline_state = "PAUSED",
                             !.m_prerolled = FALSE]
         IN  IF ~in.seek_ok
             THEN Throw(s1, "Unable to seek to the beginning")
             ELSE [s1 EXCEPT !.stream_pos = 0,
                             !.async_done_handlers =
                                 s.async_done_handlers + 1]

(* ---------------------------- calculate_duration ----------------------- *)
calculate_duration(s) ==
    IF ~s.m_prerolled \/ ~s.m_decoder_pad
    THEN Throw(s, "Missing prerequisites for calculating duration")
    ELSE [s EXCEPT !.duration_changed_handlers =
                       s.duration_changed_handlers + 1,
                   !.pipeline_state = "PLAYING"]

(* -------------------------------- change_state ------------------------- *)
change_state(s, new_state, in) ==
    LET s1 == [s EXCEPT !.m_state = new_state]
    IN  CASE new_state = STATE_DURATION -> calculate_duration(s1)
          [] new_state = STATE_SEEK -> reset_pipeline(s1, in)
          [] new_state = STATE_GENERATE -> generate_sonogram(s1, in)
          [] new_state = STATE_DONE ->
                LET s2 == draw_sonogram(s1, in)
                IN  IF s2.exited \/ s2.segv THEN s2
                    ELSE [s2 EXCEPT !.m_mainloop = "quit"]
          [] OTHER -> s1

(* --------------------------------- state_done -------------------------- *)
\* state_done() with the DURATION case jumping straight to GENERATE
state_done_skips_seek(s, in) ==
    CASE s.m_state = STATE_START ->
            IF s.m_prerolled /\ s.m_decoder_pad
            THEN change_state(s, STATE_DURATION, in)
            ELSE s
      [] s.m_state = STATE_DURATION -> change_state(s, STATE_GENERATE, in)
      [] s.m_state = STATE_SEEK -> change_state(s, STATE_GENERATE, in)
      [] s.m_state = STATE_GENERATE -> change_state(s, STATE_DONE, in)
      [] OTHER -> s

\* state_done() with || for && in the START case
state_done_either(s, in) ==
    CASE s.m_state = STATE_START ->
            IF s.m_prerolled \/ s.m_decoder_pad
            THEN change_state(s, STATE_DURATION, in)
            ELSE s
      [] s.m_state = STATE_DURATION -> change_state(s, STATE_SEEK, in)
      [] s.m_state = STATE_SEEK -> change_state(s, STATE_GENERATE, in)
      [] s.m_state = STATE_GENERATE -> change_state(s, STATE_DONE, in)
      [] OTHER -> s

state_done(s, in) ==
    CASE s.m_state = STATE_START ->
            IF s.m_prerolled /\ s.m_decoder_pad
            THEN change_state(s, STATE_DURATION, in)
            ELSE s
      [] s.m_state = STATE_DURATION -> change_state(s, STATE_SEEK, in)
      [] s.m_state = STATE_SEEK -> change_state(s, STATE_GENERATE, in)
      [] s.m_state = STATE_GENERATE -> change_state(s, STATE_DONE, in)
      [] OTHER -> s

(* --------------------------------- on_spectrum ------------------------- *)
\* (int)(seconds * m_options.resolution), seconds = endtime / GST_SECOND
PixelOffset(opts, endtime) ==
    TruncDiv(endtime * opts.res_num, GST_SECOND * opts.res_den)

\* the backfill loop: for (i = from; i < to; i++) paint_spectrum_at_offset
RECURSIVE paint_missed(_, _, _, _)
paint_missed(s, val, from, to) ==
    IF from >= to THEN s
    ELSE paint_missed(paint_spectrum_at_offset(s, val, from), val,
                      from + 1, to)

\* on_spectrum() with > for >= in the width test
on_spectrum_off_by_one(s, endtime, val, in) ==
    IF ~s.m_cr
    THEN s
    ELSE LET computed == PixelOffset(s.m_options, endtime)
         IN  IF computed > s.m_options.width
             THEN state_done(s, in)
             ELSE LET pixel_offset == IF computed = s.last_px
                                      THEN computed + 1 ELSE computed
                      s1 == IF s.last_px # -1
                            THEN paint_missed(s, val, s.last_px + 1,
                                              pixel_offset)
                            ELSE s
                  IN  [paint_spectrum_at_offset(s1, val, pixel_offset)
                          EXCEPT !.last_px = pixel_offset]

\* on_spectrum() that moves the cursor before the width test
on_spectrum_cursor_first(s, endtime, val, in) ==
    IF ~s.m_cr
    THEN s
    ELSE LET computed == PixelOffset(s.m_options, endtime)
         IN  IF computed >= s.m_options.width
             THEN state_done([s EXCEPT !.last_px = computed], in)
             ELSE LET pixel_offset == IF computed = s.last_px
                                      THEN computed + 1 ELSE computed
                      s1 == IF s.last_px # -1
                            THEN paint_missed(s, val, s.last_px + 1,
                                              pixel_offset)
                            ELSE s
                  IN  [paint_spectrum_at_offset(s1, val, pixel_offset)
                          EXCEPT !.last_px = pixel_offset]

\* on_spectrum() without the jitter correction
on_spectrum_no_jitter(s, endtime, val, in) ==
    IF ~s.m_cr
    THEN s
    ELSE LET computed == PixelOffset(s.m_options, endtime)
         IN  IF computed >= s.m_options.width
             THEN state_done(s, in)
             ELSE LET s1 == IF s.last_px # -1
                            THEN paint_missed(s, val, s.last_px + 1,
                                              computed)
                            ELSE s
                  IN  [paint_spectrum_at_offset(s1, val, computed)
                          EXCEPT !.last_px = computed]

\* on_spectrum() whose backfill loop starts one column late
on_spectrum_short_backfill(s, endtime, val, in) ==
    IF ~s.m_cr
    THEN s
    ELSE LET computed == PixelOffset(s.m_options, endtime)
         IN  IF computed >= s.m_options.width
             THEN state_done(s, in)
             ELSE LET pixel_offset == IF computed = s.last_px
                                      THEN computed + 1 ELSE computed
                      s1 == IF s.last_px # -1
                            THEN paint_missed(s, val, s.last_px + 2,
                                              pixel_offset)
                            ELSE s
                  IN  [paint_spectrum_at_offset(s1, val, pixel_offset)
                          EXCEPT !.last_px = pixel_offset]

\* on_spectrum() without the test for the canvas
on_spectrum_unguarded(s, endtime, val, in) ==
    LET computed == PixelOffset(s.m_options, endtime)
    IN  IF computed >= s.m_options.width
        THEN state_done(s, in)
        ELSE LET pixel_offset == IF computed = s.last_px
                                 THEN computed + 1 ELSE computed
                 s1 == IF s.last_px # -1
                       THEN paint_missed(s, val, s.last_px + 1,
                                         pixel_offset)
                       ELSE s
             IN  [paint_spectrum_at_offset(s1, val, pixel_offset)
                     EXCEPT !.last_px = pixel_offset]

on_spectrum(s, endtime, val, in) ==
    IF ~s.m_cr
    THEN s
    ELSE LET computed == PixelOffset(s.m_options, endtime)
         IN  IF computed >= s.m_options.width
             THEN state_done(s, in)
             ELSE LET pixel_offset == IF computed = s.last_px
                                      THEN computed + 1 ELSE computed
                      s1 == IF s.last_px # -1
                            THEN paint_missed(s, val, s.last_px + 1,
                                              pixel_offset)
                            ELSE s
                  IN  [paint_spectrum_at_offset(s1, val, pixel_offset)
                          EXCEPT !.last_px = pixel_offset]

(* ---------------------------------- on_level --------------------------- *)
\* the loop over the channels: std::max of the noise floor and every rms value
RECURSIVE MaxChannel(_, _)
MaxChannel(rms, floor) ==
    IF rms = << >> THEN floor
    ELSE MaxChannel(Tail(rms), Max(floor, Head(rms)))

\* The map key is the double timestamp / GST_SECOND; distinct timestamps
\* give distinct keys, so the track is keyed by the timestamp itself.
\* on_level() that starts the maximum at the first channel
on_level_unclamped(s, timestamp, rms) ==
    LET max_channel == MaxChannel(Tail(rms), Head(rms))
        empty == DOMAIN s.m_levels = {}
    IN  [s EXCEPT
           !.m_peak_rms = IF empty THEN max_channel
                          ELSE Max(max_channel, s.m_peak_rms),
           !.m_min_rms = IF empty THEN max_channel
                         ELSE Min(max_channel, s.m_min_rms),
           !.m_levels = [t \in DOMAIN s.m_levels \cup {timestamp} |->
                            IF t = timestamp THEN max_channel
                            ELSE s.m_levels[t]]]

\* on_level() without the special case for the first message
on_level_no_first(s, timestamp, rms) ==
    LET max_channel == MaxChannel(rms, s.m_options.noise_floor)
    IN  [s EXCEPT
           !.m_peak_rms = Max(max_channel, s.m_peak_rms),
           !.m_min_rms = Min(max_channel, s.m_min_rms),
           !.m_levels = [t \in DOMAIN s.m_levels \cup {timestamp} |->
                            IF t = timestamp THEN max_channel
                            ELSE s.m_levels[t]]]

on_level(s, timestamp, rms) ==
    LET max_channel == MaxChannel(rms, s.m_options.noise_floor)
        empty == DOMAIN s.m_levels = {}
    IN  [s EXCEPT
           !.m_peak_rms = IF empty THEN max_channel
                          ELSE Max(max_channel, s.m_peak_rms),
           !.m_min_rms = IF empty THEN max_channel
                         ELSE Min(max_channel, s.m_min_rms),
           !.m_levels = [t \in DOMAIN s.m_levels \cup {timestamp} |->
                            IF t = timestamp THEN max_channel
                            ELSE s.m_levels[t]]]

(* -------------------------- on_element_message_proxy ------------------- *)
\* name is the name of the message's structure; time and values are its
\* endtime and magnitude (spectrum) or its timestamp and rms (level)
on_element_message_proxy(s, name, time, values, in) ==
    CASE name = "spectrum" -> on_spectrum(s, time, values, in)
      [] name = "level" -> on_level(s, time, values)
      [] OTHER -> s

(* -------------------------------- on_pad_added ------------------------- *)
\* on_pad_added() that does not test the result of the pad link
on_pad_added_unchecked_link(s, audio, in) ==
    IF audio
    THEN state_done([s EXCEPT !.m_decoder_pad = TRUE], in)
    ELSE s

on_pad_added(s, audio, in) ==
    IF audio
    THEN LET s1 == [s EXCEPT !.m_decoder_pad = TRUE]
         IN  IF ~in.pad_link_ok
             THEN Throw(s1, "unable to link pad")
             ELSE state_done(s1, in)
    ELSE s

(* -------------------------------- on_async_done ------------------------ *)
on_async_done(s, in) ==
    LET s1 == state_done([s EXCEPT !.m_prerolled = TRUE], in)
    IN  IF s1.thrown \/ s1.exited \/ s1.crashed \/ s1.segv THEN s1
        ELSE [s1 EXCEPT !.async_done_handlers = 0]

(* ----------------------------- on_duration_changed --------------------- *)
\* queried is the stream length, or GST_CLOCK_TIME_NONE when the query fails
on_duration_changed(s, queried) ==
    IF queried = GST_CLOCK_TIME_NONE
    THEN s
    ELSE [s EXCEPT !.m_duration = queried]

(* ------------------------------ on_error_message ----------------------- *)
\* on_error_message() that throws for every message that is not an info
on_error_message_strict(s, type) ==
    IF type # "GST_MESSAGE_INFO" THEN Throw(s, "debug") ELSE s

\* info and warning messages are printed; an error message throws its
\* debug string
on_error_message(s, type) ==
    IF type = "GST_MESSAGE_ERROR" THEN Throw(s, "debug") ELSE s

(* ---------------------------------- App::App --------------------------- *)
\* the constructor body with a first case that leaves the resolution alone
AppOptions_keeps_resolution(o) ==
    IF o.duration # 0 /\ o.width # 0
    THEN o
    ELSE IF o.duration # 0
         THEN [o EXCEPT !.width =
                  TruncDiv(o.duration * o.res_num, o.res_den)]
         ELSE o

\* The option resolution done by the constructor on its copy of the options.
\* The resolution is the fraction res_num / res_den; the options tried have
\* whole resolutions (res_den = 1), so duration * resolution is a whole
\* number and the division below is exact.
AppOptions(o) ==
    IF o.duration # 0 /\ o.width # 0
    THEN [o EXCEPT !.res_num = o.width, !.res_den = o.duration]
    ELSE IF o.duration # 0
         THEN [o EXCEPT !.width =
                  TruncDiv(o.duration * o.res_num, o.res_den)]
         ELSE o

\* a freshly constructed App with its (not yet created) pipeline
NewApp ==
    /\ m_options' = AppOptions(options)
    /\ m_state' = STATE_START
    /\ m_sampling_rate' = 0
    /\ num_bands' = 0
    /\ m_duration' = 0
    /\ m_sample_no' = 0
    /\ m_levels' = << >>
    /\ m_peak_rms' = options.noise_floor
    /\ m_min_rms' = options.noise_floor
    /\ m_prerolled' = FALSE
    /\ m_decoder_pad' = FALSE
    /\ m_cr' = FALSE
    /\ m_surface' = << >>
    /\ m_mainloop' = "none"
    /\ async_done_handlers' = 0
    /\ duration_changed_handlers' = 0
    /\ pipeline_state' = "NULL"
    /\ stream_pos' = 0
    /\ image_written' = 0
    /\ painted' = {}
    /\ last_cols' = {}
    /\ heap_corrupt' = FALSE
    /\ invalid_read' = FALSE
    /\ time_axis' = {}

ParsedOptions ==
    [height : Heights, width : Widths, res_num : Resolutions, res_den : {1},
     duration : Durations, noise_floor : {DEFAULT_NOISE_FLOOR},
     max_frequency : MaxFrequencies, draw_grid : {FALSE},
     benchmark : Benchmarks]

InitOf(parsed) ==
    /\ options \in parsed
    /\ iteration = 0
    /\ exit_code = EXIT_NONE
    /\ error_what = ""
    /\ m_options = AppOptions(options)
    /\ m_state = STATE_START
    /\ m_sampling_rate = 0
    /\ num_bands = 0
    /\ m_duration = 0
    /\ m_sample_no = 0
    /\ m_levels = << >>
    /\ m_peak_rms = options.noise_floor
    /\ m_min_rms = options.noise_floor
    /\ m_prerolled = FALSE
    /\ m_decoder_pad = FALSE
    /\ m_cr = FALSE
    /\ m_surface = << >>
    /\ m_mainloop = "none"
    /\ async_done_handlers = 0
    /\ duration_changed_handlers = 0
    /\ pipeline_state = "NULL"
    /\ stream_pos = 0
    /\ image_written = 0
    /\ painted = {}
    /\ last_cols = {}
    /\ last_px = -1
    /\ heap_corrupt = FALSE
    /\ invalid_read = FALSE
    /\ time_axis = {}
    /\ flt_eval = 0
    /\ ignored = 0
    /\ notifications = << >>
    /\ replayed = 0
    /\ first_canvas = << >>
    /\ painter_call = << >>
    /\ recorded = {}
    /\ soundprint = << >>
    /\ app_constructed = TRUE

Init == InitOf(ParsedOptions)

(* --------------------------- handler epilogue -------------------------- *)
\* Stores what a handler left behind.  An exception reaches the catch
\* clause of run(): pipeline to NULL, then g_error() aborts.  exit(1) inside
\* draw_sonogram and a fatal signal end the process on the spot.
\* the epilogue with a catch clause that does not stop the pipeline
Commit_no_teardown(s) ==
    /\ m_options' = s.m_options
    /\ m_state' = s.m_state
    /\ m_prerolled' = s.m_prerolled
    /\ m_decoder_pad' = s.m_decoder_pad
    /\ m_duration' = s.m_duration
    /\ m_sampling_rate' = s.m_sampling_rate
    /\ num_bands' = s.num_bands
    /\ m_cr' = s.m_cr
    /\ m_surface' = s.m_surface
    /\ m_sample_no' = s.m_sample_no
    /\ m_levels' = s.m_levels
    /\ m_peak_rms' = s.m_peak_rms
    /\ m_min_rms' = s.m_min_rms
    /\ last_px' = s.last_px
    /\ async_done_handlers' = s.async_done_handlers
    /\ duration_changed_handlers' = s.duration_changed_handlers
    /\ stream_pos' = s.stream_pos
    /\ image_written' = s.image_written
    /\ painted' = s.painted
    /\ last_cols' = s.last_cols
    /\ heap_corrupt' = s.heap_corrupt
    /\ invalid_read' = s.invalid_read
    /\ time_axis' = s.time_axis
    /\ m_mainloop' = s.m_mainloop
    /\ pipeline_state' = s.pipeline_state
    /\ error_what' = s.what
    /\ exit_code' = CASE s.crashed -> EXIT_SIGFPE
                       [] s.segv -> EXIT_SIGSEGV
                       [] s.thrown -> EXIT_ABORT
                       [] s.exited -> EXIT_FAILURE
                       [] OTHER -> exit_code
    /\ UNCHANGED <<options, iteration, flt_eval>>

Commit(s) ==
    /\ m_options' = s.m_options
    /\ m_state' = s.m_state
    /\ m_prerolled' = s.m_prerolled
    /\ m_decoder_pad' = s.m_decoder_pad
    /\ m_duration' = s.m_duration
    /\ m_sampling_rate' = s.m_sampling_rate
    /\ num_bands' = s.num_bands
    /\ m_cr' = s.m_cr
    /\ m_surface' = s.m_surface
    /\ m_sample_no' = s.m_sample_no
    /\ m_levels' = s.m_levels
    /\ m_peak_rms' = s.m_peak_rms
    /\ m_min_rms' = s.m_min_rms
    /\ last_px' = s.last_px
    /\ async_done_handlers' = s.async_done_handlers
    /\ duration_changed_handlers' = s.duration_changed_handlers
    /\ stream_pos' = s.stream_pos
    /\ image_written' = s.image_written
    /\ painted' = s.painted
    /\ last_cols' = s.last_cols
    /\ heap_corrupt' = s.heap_corrupt
    /\ invalid_read' = s.invalid_read
    /\ time_axis' = s.time_axis
    /\ m_mainloop' = s.m_mainloop
    /\ pipeline_state' = IF s.thrown THEN "NULL" ELSE s.pipeline_state
    /\ error_what' = s.what
    /\ exit_code' = CASE s.crashed -> EXIT_SIGFPE
                       [] s.segv -> EXIT_SIGSEGV
                       [] s.thrown -> EXIT_ABORT
                       [] s.exited -> EXIT_FAILURE
                       [] OTHER -> exit_code
    /\ UNCHANGED <<options, iteration, flt_eval>>

Dispatching == m_mainloop = "running" /\ exit_code = EXIT_NONE

\* The pipeline calls whose result state_done() tests when called in state
\* st: none for calculate_duration, pause and seek for reset_pipeline, add,
\* the links and the caps for generate_sonogram, the write and the read of the
\* last level for draw_sonogram.
Tested(st) ==
    CASE st = STATE_DURATION -> {"pause_ok", "seek_ok"}
      [] st = STATE_SEEK ->
            {"add_ok", "pad_link_ok", "element_link_ok", "caps_ok"}
                \cup UndefinedDivisions
      [] st = STATE_GENERATE -> {"write_ok"} \cup UndefinedReads
      [] OTHER -> {}

\* the inputs that can make a difference to a handler that tests the calls
\* in extra and may then call state_done() in state st
InputsFor(st, extra) ==
    {Input(failed, rate) :
        failed \in Tested(st) \cup extra \cup {"none"}, rate \in SamplingRates}

(* --------------------------------- actions ----------------------------- *)
\* App::run() up to the point where it enters the main loop
Run(ret, in) ==
    /\ exit_code = EXIT_NONE
    /\ m_mainloop = "none"
    /\ IF ~in.add_ok
       THEN Commit(Throw([Self EXCEPT !.m_mainloop = "created"],
                         "Couldn't add element to pipeline"))
       ELSE LET s1 == [Self EXCEPT
                         !.m_mainloop = "running",
                         !.pipeline_state =
                             IF ret = "FAILURE" THEN "NULL" ELSE "PAUSED",
                         !.m_prerolled = (ret = "SUCCESS")]
            IN  IF ~s1.m_prerolled
                THEN Commit([s1 EXCEPT !.async_done_handlers = 1])
                ELSE Commit(state_done(s1, in))

PadAdded(audio, in) ==
    /\ Dispatching
    /\ Commit(on_pad_added(Self, audio, in))

AsyncDone(in) ==
    /\ Dispatching
    /\ async_done_handlers > 0
    /\ Commit(on_async_done(Self, in))

Eos(in) ==
    /\ Dispatching
    /\ Commit(state_done(Self, in))

DurationChanged(queried) ==
    /\ Dispatching
    /\ duration_changed_handlers > 0
    /\ Commit(on_duration_changed(Self, queried))

ErrorMessage(type) ==
    /\ Dispatching
    /\ Commit(on_error_message(Self, type))

\* magnitude lists a spectrum message may carry when n bands are configured
Magnitudes(n) ==
    {[i \in 1..n |-> IF i = 1 THEN a ELSE DEFAULT_NOISE_FLOOR] :
        a \in DbLevels \ {DEFAULT_NOISE_FLOOR}}

\* on_element_message_proxy for a structure named "spectrum".  The pipeline
\* posts spectrum messages only while it is playing, and stamps strictly
\* increasing end times on them until a flushing seek rewinds it.
Spectrum(endtime, val, in) ==
    /\ Dispatching
    /\ pipeline_state = "PLAYING"
    /\ endtime > stream_pos
    /\ Commit(on_spectrum([Self EXCEPT !.stream_pos = endtime],
                          endtime, val, in))

\* main(): what follows the return of app.run()
MainNext ==
    /\ exit_code = EXIT_NONE
    /\ m_mainloop = "quit"
    /\ UNCHANGED <<options, last_px, error_what, flt_eval>>
    /\ IF options.benchmark > 0 /\ iteration + 1 < options.benchmark
       THEN /\ iteration' = iteration + 1
            /\ exit_code' = EXIT_NONE
            /\ NewApp
       ELSE /\ exit_code' = IF options.benchmark > 0 THEN EXIT_FAILURE
                            ELSE EXIT_OK
            /\ UNCHANGED <<iteration, m_options, m_state, m_sampling_rate,
                           num_bands, m_duration, m_sample_no, m_levels,
                           m_peak_rms, m_min_rms, m_prerolled,
                           m_decoder_pad, m_cr, m_surface, m_mainloop,
                           async_done_handlers, duration_changed_handlers,
                           pipeline_state, stream_pos, image_written, painted,
                           last_cols, heap_corrupt, invalid_read,
                           time_axis>>

Next ==
    \/ \E ret \in {"SUCCESS", "ASYNC", "FAILURE"},
          in \in InputsFor(m_state, {"add_ok"}) :
          Run(ret, in) /\ UNCHANGED hist
    \/ \E audio \in BOOLEAN, in \in InputsFor(m_state, {"pad_link_ok"}) :
          PadAdded(audio, in) /\ UNCHANGED hist
    \/ \E in \in InputsFor(m_state, {}) : AsyncDone(in) /\ UNCHANGED hist
    \/ \E in \in InputsFor(m_state, {}) : Eos(in) /\ UNCHANGED hist
    \/ \E queried \in StreamDurations \cup {GST_CLOCK_TIME_NONE} :
          DurationChanged(queried) /\ UNCHANGED hist
    \/ \E type \in {"GST_MESSAGE_INFO", "GST_MESSAGE_WARNING",
                     "GST_MESSAGE_ERROR"} :
          ErrorMessage(type) /\ UNCHANGED hist
    \/ \E endtime \in EndTimes, val \in Magnitudes(num_bands),
          in \in InputsFor(m_state, {}) :
          Spectrum(endtime, val, in) /\ UNCHANGED hist
    \/ MainNext /\ UNCHANGED hist

Spec == Init /\ [][Next]_vars

(* ------------------- the bus with every element message ---------------- *)
\* per-channel rms lists (dB) a level message may carry
RmsArrays == {<<-120>>, <<-50, -30>>}

\* timestamps a level message may carry: half a second and one second
LevelTimes == {GST_SECOND \div 2, GST_SECOND}

\* level messages from a level element that is there from the start
Level_from_start(timestamp, rms, in) ==
    /\ Dispatching
    /\ pipeline_state = "PLAYING"
    /\ Commit(on_element_message_proxy(Self, "level", timestamp, rms, in))
    /\ recorded' = recorded \cup {m_levels'[timestamp]}
    /\ UNCHANGED <<ignored, notifications, replayed, first_canvas,
                   painter_call, soundprint, app_constructed>>

\* on_element_message_proxy for a structure named "level".  The level
\* element exists once generate_sonogram() has run, and posts while the
\* pipeline plays.  The history variable recorded collects what was stored.
Level(timestamp, rms, in) ==
    /\ Dispatching
    /\ m_cr
    /\ pipeline_state = "PLAYING"
    /\ Commit(on_element_message_proxy(Self, "level", timestamp, rms, in))
    /\ recorded' = recorded \cup {m_levels'[timestamp]}
    /\ UNCHANGED <<ignored, notifications, replayed, first_canvas,
                   painter_call, soundprint, app_constructed>>

\* an info or warning message (on_error_message), or an element message
\* with another name than "spectrum" and "level" (on_element_message_proxy);
\* the history variable ignored counts them
Unhandled(kind, in) ==
    /\ Dispatching
    /\ ignored < MaxIgnored
    /\ ignored' = ignored + 1
    /\ UNCHANGED <<notifications, replayed, first_canvas, painter_call,
                   recorded, soundprint, app_constructed>>
    /\ IF kind \in {"GST_MESSAGE_INFO", "GST_MESSAGE_WARNING"}
       THEN Commit(on_error_message(Self, kind))
       ELSE Commit(on_element_message_proxy(Self, kind, 0, << >>, in))

\* one run (no --benchmark) of the configuration with the largest width and
\* resolution, with --grid: the level track is drawn
ElementOptions ==
    [height : Heights, width : {MaxWidth}, res_num : {MaxResolution},
     res_den : {1}, duration : Durations, noise_floor : {DEFAULT_NOISE_FLOOR},
     max_frequency : MaxFrequencies, draw_grid : {TRUE}, benchmark : {0}]

InitElement == InitOf(ElementOptions)

NextElement ==
    \/ Next
    \/ \E timestamp \in LevelTimes, rms \in RmsArrays,
          in \in InputsFor(STATE_START, {}) :
          Level(timestamp, rms, in)
    \/ \E kind \in {"GST_MESSAGE_INFO", "GST_MESSAGE_WARNING",
                     "missing-plugin"},
          in \in InputsFor(STATE_START, {}) : Unhandled(kind, in)

SpecElement == InitElement /\ [][NextElement]_vars

(* -------------- --benchmark: the same notifications, run again --------- *)
\* a notification as the pipeline delivers it
Notification(name, time, values) ==
    [name |-> name, time |-> time, values |-> values]

\* The first run (iteration 0) takes any notification and records it; every
\* later run is given the recorded notifications again, in the same order.
Notify(e) ==
    IF iteration = 0
    THEN /\ Len(notifications) < MaxNotifications
         /\ notifications' = Append(notifications, e)
         /\ UNCHANGED <<ignored, replayed, first_canvas, painter_call,
                        recorded, soundprint, app_constructed>>
    ELSE /\ replayed < Len(notifications)
         /\ notifications[replayed + 1] = e
         /\ replayed' = replayed + 1
         /\ UNCHANGED <<ignored, notifications, first_canvas, painter_call,
                        recorded, soundprint, app_constructed>>

\* what a run has painted: the pixel buffer and the set of painted columns
Canvas == <<m_surface, painted>>

\* main()'s loop, keeping the canvas of the first run for comparison
BenchmarkMainNext ==
    /\ MainNext
    /\ first_canvas' = IF iteration = 0 THEN Canvas ELSE first_canvas
    /\ replayed' = 0
    /\ UNCHANGED <<ignored, notifications, painter_call, recorded,
                   soundprint, app_constructed>>

InitBenchmark ==
    /\ Init
    /\ options.benchmark = MaxBenchmark

\* every pipeline call succeeds: a failed call ends the process, and with it
\* the benchmark
NextBenchmark ==
    \/ \E ret \in {"SUCCESS", "ASYNC"}, rate \in SamplingRates :
          Run(ret, Input("none", rate)) /\ Notify(Notification(ret, 0, << >>))
    \/ \E rate \in SamplingRates :
          /\ PadAdded(TRUE, Input("none", rate))
          /\ Notify(Notification("pad-added", 0, << >>))
    \/ \E rate \in SamplingRates :
          /\ AsyncDone(Input("none", rate))
          /\ Notify(Notification("async-done", 0, << >>))
    \/ \E rate \in SamplingRates :
          /\ Eos(Input("none", rate))
          /\ Notify(Notification("eos", 0, << >>))
    \/ \E queried \in StreamDurations :
          /\ DurationChanged(queried)
          /\ Notify(Notification("duration-changed", queried, << >>))
    \/ \E endtime \in EndTimes, val \in Magnitudes(num_bands),
          rate \in SamplingRates :
          /\ Spectrum(endtime, val, Input("none", rate))
          /\ Notify(Notification("spectrum", endtime, val))
    \/ BenchmarkMainNext

SpecBenchmark == InitBenchmark /\ [][NextBenchmark]_vars

(* --------------------- the constructor, step by step ------------------- *)
\* the options given to the constructor: any two or all three of width,
\* duration and resolution
ConstructorOptions ==
    [height : Heights, width : 0..MaxWidth, res_num : Resolutions,
     res_den : {1}, duration : 0..MaxDuration,
     noise_floor : {DEFAULT_NOISE_FLOOR}, max_frequency : MaxFrequencies,
     draw_grid : {FALSE}, benchmark : Benchmarks]

\* the App after its member initialisers: m_options is a plain copy
InitConstructor ==
    /\ options \in ConstructorOptions
    /\ iteration = 0
    /\ exit_code = EXIT_NONE
    /\ error_what = ""
    /\ m_options = options
    /\ m_state = STATE_START
    /\ m_sampling_rate = 0
    /\ num_bands = 0
    /\ m_duration = 0
    /\ m_sample_no = 0
    /\ m_levels = << >>
    /\ m_peak_rms = options.noise_floor
    /\ m_min_rms = options.noise_floor
    /\ m_prerolled = FALSE
    /\ m_decoder_pad = FALSE
    /\ m_cr = FALSE
    /\ m_surface = << >>
    /\ m_mainloop = "none"
    /\ async_done_handlers = 0
    /\ duration_changed_handlers = 0
    /\ pipeline_state = "NULL"
    /\ stream_pos = 0
    /\ image_written = 0
    /\ painted = {}
    /\ last_cols = {}
    /\ last_px = -1
    /\ heap_corrupt = FALSE
    /\ invalid_read = FALSE
    /\ time_axis = {}
    /\ flt_eval = 0
    /\ ignored = 0
    /\ notifications = << >>
    /\ replayed = 0
    /\ first_canvas = << >>
    /\ painter_call = << >>
    /\ recorded = {}
    /\ soundprint = << >>
    /\ app_constructed = FALSE

\* the body of the constructor
Construct ==
    /\ ~app_constructed
    /\ app_constructed' = TRUE
    /\ m_options' = AppOptions(m_options)
    /\ UNCHANGED <<options, iteration, flt_eval, exit_code, error_what,
                   m_mainloop,
                   m_state, m_prerolled, m_decoder_pad, m_duration,
                   m_sampling_rate, num_bands, m_cr, m_surface, m_sample_no,
                   m_levels, m_peak_rms, m_min_rms, last_px,
                   async_done_handlers, duration_changed_handlers,
                   pipeline_state, stream_pos, image_written, painted,
                   last_cols, heap_corrupt, invalid_read, time_axis,
                   ignored,
                   notifications, replayed,
                   first_canvas, painter_call, recorded,
                   soundprint>>

SpecConstructor == InitConstructor /\ [][Construct]_vars

(* --------------------- the band count, on its own ---------------------- *)
\* heights, maximum frequencies and sampling rates for the band count
BandOptions ==
    [height : 1..MaxHeight, width : Widths, res_num : {1}, res_den : {1},
     duration : Durations, noise_floor : {DEFAULT_NOISE_FLOOR},
     max_frequency : 1..MaxFrequency, draw_grid : {FALSE}, benchmark : {0}]

BandRates == (MaxRate - 3)..MaxRate

\* the App as reset_pipeline() leaves it: in SEEK, waiting for async-done
InitBands ==
    /\ options \in BandOptions
    /\ iteration = 0
    /\ exit_code = EXIT_NONE
    /\ error_what = ""
    /\ m_options = AppOptions(options)
    /\ m_state = STATE_SEEK
    /\ m_sampling_rate = 0
    /\ num_bands = 0
    /\ m_duration \in StreamDurations
    /\ m_sample_no = 0
    /\ m_levels = << >>
    /\ m_peak_rms = options.noise_floor
    /\ m_min_rms = options.noise_floor
    /\ m_prerolled = FALSE
    /\ m_decoder_pad = TRUE
    /\ m_cr = FALSE
    /\ m_surface = << >>
    /\ m_mainloop = "running"
    /\ async_done_handlers = 1
    /\ duration_changed_handlers = 1
    /\ pipeline_state = "PAUSED"
    /\ stream_pos = 0
    /\ image_written = 0
    /\ painted = {}
    /\ last_cols = {}
    /\ last_px = -1
    /\ heap_corrupt = FALSE
    /\ invalid_read = FALSE
    /\ time_axis = {}
    /\ flt_eval = 0
    /\ ignored = 0
    /\ notifications = << >>
    /\ replayed = 0
    /\ first_canvas = << >>
    /\ painter_call = << >>
    /\ recorded = {}
    /\ soundprint = << >>
    /\ app_constructed = TRUE

\* the async-done of the seek: generate_sonogram() and start_pipeline()
NextBands ==
    \E failed \in Tested(STATE_SEEK) \cup {"none"}, rate \in BandRates :
        AsyncDone(Input(failed, rate)) /\ UNCHANGED hist

SpecBands == InitBands /\ [][NextBands]_vars

(* ----------------------- the time axis of the grid -------------------- *)
\* largest --width tried for the time axis
MaxGridWidth == 50

\* widths and resolutions (pixels per second) around the two thresholds of
\* the label interval
GridWidths == (MaxGridWidth - 20)..MaxGridWidth
GridResolutions == {5, 10, 11, 30, 31}

GridOptions ==
    [height : Heights, width : GridWidths, res_num : GridResolutions,
     res_den : {1}, duration : Durations, noise_floor : {DEFAULT_NOISE_FLOOR},
     max_frequency : MaxFrequencies, draw_grid : {TRUE}, benchmark : {0}]

\* the App as reset_pipeline() leaves it: in SEEK, waiting for async-done
InitGrid ==
    /\ options \in GridOptions
    /\ iteration = 0
    /\ exit_code = EXIT_NONE
    /\ error_what = ""
    /\ m_options = AppOptions(options)
    /\ m_state = STATE_SEEK
    /\ m_sampling_rate = 0
    /\ num_bands = 0
    /\ m_duration \in StreamDurations
    /\ m_sample_no = 0
    /\ m_levels = << >>
    /\ m_peak_rms = options.noise_floor
    /\ m_min_rms = options.noise_floor
    /\ m_prerolled = FALSE
    /\ m_decoder_pad = TRUE
    /\ m_cr = FALSE
    /\ m_surface = << >>
    /\ m_mainloop = "running"
    /\ async_done_handlers = 1
    /\ duration_changed_handlers = 1
    /\ pipeline_state = "PAUSED"
    /\ stream_pos = 0
    /\ image_written = 0
    /\ painted = {}
    /\ last_cols = {}
    /\ last_px = -1
    /\ heap_corrupt = FALSE
    /\ invalid_read = FALSE
    /\ time_axis = {}
    /\ flt_eval = 0
    /\ ignored = 0
    /\ notifications = << >>
    /\ replayed = 0
    /\ first_canvas = << >>
    /\ painter_call = << >>
    /\ recorded = {}
    /\ soundprint = << >>
    /\ app_constructed = TRUE

\* the async-done of the seek, the level messages of the generating pass and
\* its end of stream, which draws the image
NextGrid ==
    \/ \E in \in InputsFor(m_state, {}) : AsyncDone(in) /\ UNCHANGED hist
    \/ \E timestamp \in LevelTimes, rms \in RmsArrays,
          in \in InputsFor(STATE_START, {}) :
          Level(timestamp, rms, in)
    \/ \E in \in InputsFor(m_state, {}) : Eos(in) /\ UNCHANGED hist

SpecGrid == InitGrid /\ [][NextGrid]_vars

(* ------------- the thumbnailer (src/src/soundprint.cc) ----------------- *)
\* The thumbnailer is a second program with an App class of its own: one
\* pass over the first seconds of the stream, one column of a square
\* surface per spectrum message, the image written at the end of stream.
\* Its App is the record soundprint; a pixel is "white" as the constructor
\* paints it or "shaded" once on_spectrum has set it.

\* largest --size option tried
MaxThumbnailSize == 3
ThumbnailSizes == 1..MaxThumbnailSize
DEFAULT_NOISE_THRESHOLD == -100

\* the variables of sonogen
sonogen == <<options, iteration, exit_code, error_what, m_mainloop, m_options, m_state,
             m_prerolled, m_decoder_pad, m_duration, m_sampling_rate, num_bands,
             m_cr, m_surface, m_sample_no, m_levels, m_peak_rms, m_min_rms,
             last_px, async_done_handlers,
             duration_changed_handlers, pipeline_state, stream_pos,
             image_written, painted, last_cols, heap_corrupt, invalid_read,
             time_axis,
             flt_eval,
             ignored, notifications, replayed, first_canvas, painter_call,
             recorded, app_constructed>>

\* App::App: the surface is m_thumbnail_size pixels square and as many
\* bands are asked for as there are rows
ThumbnailerApp(size) ==
    [m_thumbnail_size |-> size, m_num_samples |-> size, m_freq_bands |-> size,
     m_threshold |-> DEFAULT_NOISE_THRESHOLD,
     m_surface |-> [j \in 0..(size * size - 1) |-> "white"],
     m_sample_no |-> 0, m_prerolled |-> FALSE, m_mainloop |-> "none",
     pipeline_state |-> "NULL", async_done_handlers |-> 0,
     idle_start_pipeline |-> FALSE, image_written |-> 0,
     heap_corrupt |-> FALSE, columns |-> {}]

\* magnitude lists of a spectrum message of the thumbnailer: n bands, one of
\* them (or none) above the threshold
ThumbnailMagnitudes(n) ==
    {[i \in 1..n |-> IF i = loud THEN -50 ELSE DEFAULT_NOISE_THRESHOLD] :
        loud \in 0..n}

\* start_pipeline(): the seek (a failure only warns) and set_state(PLAYING)
soundprint_start_pipeline(a) == [a EXCEPT !.pipeline_state = "PLAYING"]

\* on_spectrum(): messages beyond the size are ignored; the others shade the
\* bands above the threshold in column m_sample_no (stride = one row of
\* m_thumbnail_size pixels) and advance the column.  columns is the history
\* of the columns painted.
soundprint_on_spectrum(a, val) ==
    IF a.m_sample_no > a.m_thumbnail_size
    THEN a
    ELSE LET size == Len(val)
             stride == a.m_thumbnail_size
             drawn == {i \in 0..(size - 1) : val[i + 1] > a.m_threshold}
             pixel(i) == (size - 1 - i) * stride + a.m_sample_no
         IN  [a EXCEPT
                !.m_surface =
                    [j \in DOMAIN a.m_surface |->
                        IF \E i \in drawn : pixel(i) = j THEN "shaded"
                        ELSE a.m_surface[j]],
                !.heap_corrupt =
                    a.heap_corrupt
                        \/ \E i \in drawn : pixel(i) \notin DOMAIN a.m_surface,
                !.columns = a.columns \cup {a.m_sample_no},
                !.m_sample_no = a.m_sample_no + 1]

\* on_async_done()
soundprint_on_async_done(a) ==
    IF a.m_prerolled
    THEN a
    ELSE [soundprint_start_pipeline([a EXCEPT !.m_prerolled = TRUE])
             EXCEPT !.async_done_handlers = 0]

\* on_pad_added(): with audio caps and a prerolled pipeline, start_pipeline
\* is left to an idle callback
soundprint_on_pad_added(a, audio) ==
    IF audio /\ a.m_prerolled
    THEN [a EXCEPT !.idle_start_pipeline = TRUE]
    ELSE a

\* on_eos()
soundprint_on_eos(a) ==
    [a EXCEPT !.pipeline_state = "NULL",
              !.image_written = a.image_written + 1,
              !.m_mainloop = "quit"]

\* App::run() up to the main loop; ret is the result of set_state(PAUSED)
ThumbnailerRun(ret) ==
    /\ soundprint.m_mainloop = "none"
    /\ soundprint' =
          [soundprint EXCEPT
              !.m_mainloop = "running",
              !.pipeline_state = "PAUSED",
              !.m_prerolled = (ret = "SUCCESS"),
              !.async_done_handlers = IF ret = "SUCCESS" THEN 0 ELSE 1]
    /\ UNCHANGED sonogen

ThumbnailerPadAdded(audio) ==
    /\ soundprint.m_mainloop = "running"
    /\ soundprint' = soundprint_on_pad_added(soundprint, audio)
    /\ UNCHANGED sonogen

\* the idle callback connected by on_pad_added; it returns false and so
\* runs once
ThumbnailerIdle ==
    /\ soundprint.m_mainloop = "running"
    /\ soundprint.idle_start_pipeline
    /\ soundprint' = [soundprint_start_pipeline(soundprint)
                        EXCEPT !.idle_start_pipeline = FALSE]
    /\ UNCHANGED sonogen

ThumbnailerAsyncDone ==
    /\ soundprint.m_mainloop = "running"
    /\ soundprint.async_done_handlers > 0
    /\ soundprint' = soundprint_on_async_done(soundprint)
    /\ UNCHANGED sonogen

\* on_element_message_proxy for a structure named "spectrum": posted while
\* the pipeline plays, with the number of bands set in run()
ThumbnailerSpectrum(val) ==
    /\ soundprint.m_mainloop = "running"
    /\ soundprint.pipeline_state = "PLAYING"
    /\ soundprint' = soundprint_on_spectrum(soundprint, val)
    /\ UNCHANGED sonogen

ThumbnailerEos ==
    /\ soundprint.m_mainloop = "running"
    /\ soundprint.pipeline_state = "PLAYING"
    /\ soundprint' = soundprint_on_eos(soundprint)
    /\ UNCHANGED sonogen

\* sonogen is not started: its variables keep the values of its initial state
InitThumbnailer ==
    /\ options \in ElementOptions
    /\ iteration = 0
    /\ exit_code = EXIT_NONE
    /\ error_what = ""
    /\ m_options = AppOptions(options)
    /\ m_state = STATE_START
    /\ m_sampling_rate = 0
    /\ num_bands = 0
    /\ m_duration = 0
    /\ m_sample_no = 0
    /\ m_levels = << >>
    /\ m_peak_rms = options.noise_floor
    /\ m_min_rms = options.noise_floor
    /\ m_prerolled = FALSE
    /\ m_decoder_pad = FALSE
    /\ m_cr = FALSE
    /\ m_surface = << >>
    /\ m_mainloop = "none"
    /\ async_done_handlers = 0
    /\ duration_changed_handlers = 0
    /\ pipeline_state = "NULL"
    /\ stream_pos = 0
    /\ image_written = 0
    /\ painted = {}
    /\ last_cols = {}
    /\ last_px = -1
    /\ heap_corrupt = FALSE
    /\ invalid_read = FALSE
    /\ time_axis = {}
    /\ flt_eval = 0
    /\ ignored = 0
    /\ notifications = << >>
    /\ replayed = 0
    /\ first_canvas = << >>
    /\ painter_call = << >>
    /\ recorded = {}
    /\ soundprint \in {ThumbnailerApp(size) : size \in ThumbnailSizes}
    /\ app_constructed = TRUE

NextThumbnailer ==
    \/ \E ret \in {"SUCCESS", "ASYNC"} : ThumbnailerRun(ret)
    \/ \E audio \in BOOLEAN : ThumbnailerPadAdded(audio)
    \/ ThumbnailerIdle
    \/ ThumbnailerAsyncDone
    \/ \E val \in ThumbnailMagnitudes(soundprint.m_freq_bands) :
          ThumbnailerSpectrum(val)
    \/ ThumbnailerEos

SpecThumbnailer == InitThumbnailer /\ [][NextThumbnailer]_vars

(* ------------------- the painter, called on its own -------------------- *)
\* magnitudes (dB) handed to the painter: below, at and above the floor
PaintLevels == DbLevels \cup {DEFAULT_NOISE_FLOOR - 20}

\* magnitude lists shorter than the canvas is high (one band) and longer
\* (three bands, the last one loud)
PaintArrays ==
    {<<a>> : a \in PaintLevels}
        \cup {<<lo, mid, 0>> : lo \in PaintLevels, mid \in PaintLevels}

\* one band at the floor, one in the lower half of the range, two loud ones
FourBands == <<DEFAULT_NOISE_FLOOR, -50, -10, 0>>

\* one band whose shade over the default floor is exactly TX
AtBreakpoint ==
    <<DEFAULT_NOISE_FLOOR + (TX[1] * (-DEFAULT_NOISE_FLOOR)) \div TX[2]>>

\* a canvas as high as FourBands is long, besides the usual ones
PainterOptions ==
    {o \in ParsedOptions :
        o.width # DEFAULT_WIDTH /\ o.res_num = 1 /\ o.benchmark = 0}
    \cup [height : {Len(FourBands)}, width : {1}, res_num : {1},
          res_den : {1}, duration : Durations,
          noise_floor : {DEFAULT_NOISE_FLOOR},
          max_frequency : MaxFrequencies, draw_grid : {FALSE},
          benchmark : {0}]

\* the App as generate_sonogram() leaves it: a blank canvas, in GENERATE
\* with the pipeline playing
InitPainter ==
    /\ options \in PainterOptions
    /\ iteration = 0
    /\ exit_code = EXIT_NONE
    /\ error_what = ""
    /\ m_options = AppOptions(options)
    /\ m_state = STATE_GENERATE
    /\ m_sampling_rate \in SamplingRates
    /\ num_bands = TruncDiv(TruncDiv(m_sampling_rate, 2),
                            TruncDiv(m_options.max_frequency, m_options.height))
    /\ m_duration = 0
    /\ m_sample_no = 0
    /\ m_levels = << >>
    /\ m_peak_rms = options.noise_floor
    /\ m_min_rms = options.noise_floor
    /\ m_prerolled = TRUE
    /\ m_decoder_pad = TRUE
    /\ m_cr = TRUE
    /\ m_surface = [j \in 0..(m_options.width * m_options.height - 1) |-> Blank]
    /\ m_mainloop = "running"
    /\ async_done_handlers = 0
    /\ duration_changed_handlers = 1
    /\ pipeline_state = "PLAYING"
    /\ stream_pos = 0
    /\ image_written = 0
    /\ painted = {}
    /\ last_cols = {}
    /\ last_px = -1
    /\ heap_corrupt = FALSE
    /\ invalid_read = FALSE
    /\ time_axis = {}
    /\ flt_eval \in FloatEvaluations
    /\ ignored = 0
    /\ notifications = << >>
    /\ replayed = 0
    /\ first_canvas = << >>
    /\ painter_call = << >>
    /\ recorded = {}
    /\ soundprint = << >>
    /\ app_constructed = TRUE

\* one call of paint_spectrum_at_offset(val, offset)
Paint(val, offset) ==
    /\ m_sample_no < MaxPaints
    /\ Commit(paint_spectrum_at_offset(Self, val, offset))
    /\ painter_call' = <<val, offset>>
    /\ UNCHANGED <<ignored, notifications, replayed, first_canvas,
                   recorded, soundprint, app_constructed>>

\* on_spectrum() calls the painter with the columns 0..width
NextPainter ==
    \E val \in PaintArrays \cup {FourBands, AtBreakpoint}, offset \in 0..m_options.width :
        Paint(val, offset)

SpecPainter == InitPainter /\ [][NextPainter]_vars

(* ============================== properties ============================= *)
\* a step of the current App (not the construction of the next one)
SameRun == iteration' = iteration

\* the step is the handling of an end-of-stream message
EosStep == \E in \in InputsFor(m_state, {}) : Eos(in)
\* the step is the handling of an async-done message
AsyncDoneStep == \E in \in InputsFor(m_state, {}) : AsyncDone(in)
\* the step is the handling of a pipeline error message
ErrorStep == ErrorMessage("GST_MESSAGE_ERROR")
\* the step is the handling of the spectrum message (endtime, val); only a
\* spectrum message moves stream_pos forward
SpectrumStep(endtime, val) ==
    /\ stream_pos' = endtime
    /\ stream_pos < endtime
    /\ \E in \in InputsFor(m_state, {}) : Spectrum(endtime, val, in)

\* C1: within a run the state only ever moves one step forward along
\* START -> DURATION -> SEEK -> GENERATE -> DONE, and never leaves DONE.
C1_SingleForwardSteps ==
    [][SameRun =>
          /\ m_state' = m_state \/ m_state' = m_state + 1
          /\ m_state = STATE_DONE => m_state' = STATE_DONE]_vars

C1_Witness == m_state = STATE_DONE /\ image_written = 1

\* C2: START is left only for DURATION and only when the pipeline has
\* prerolled and an audio pad has been linked; with one of the two missing
\* the state stays START.
C2_LeaveStartNeedsBoth ==
    [][(SameRun /\ m_state = STATE_START) =>
          /\ m_state' # STATE_START =>
                m_state' = STATE_DURATION /\ m_prerolled' /\ m_decoder_pad'
          /\ (~m_prerolled' \/ ~m_decoder_pad') => m_state' = STATE_START]_vars

C2_Witness ==
    m_state = STATE_DURATION /\ m_prerolled /\ m_decoder_pad
    /\ pipeline_state = "PLAYING"

\* C3 (as claimed): the only step that takes the state from SEEK to
\* GENERATE is the handling of an async-done message.
C3_GenerateOnlyOnSeekDone ==
    [][(m_state = STATE_SEEK /\ m_state' = STATE_GENERATE) =>
          AsyncDoneStep]_vars

\* C4: in GENERATE an end-of-stream, or a spectrum message whose computed
\* offset is >= width, moves the state to DONE; a spectrum message whose
\* computed offset is < width leaves it at GENERATE.
C4_GenerateToDone ==
    [][m_state = STATE_GENERATE =>
          /\ m_state' = STATE_DONE \/ ~EosStep
          /\ \A endtime \in EndTimes, val \in Magnitudes(num_bands) :
                SpectrumStep(endtime, val) =>
                   m_state' = IF PixelOffset(m_options, endtime)
                                    >= m_options.width
                              THEN STATE_DONE ELSE STATE_GENERATE]_vars

C4_Witness == m_state = STATE_DONE /\ painted # {} /\ m_mainloop = "quit"

\* C5: a spectrum message whose computed offset is >= width paints nothing:
\* canvas and last_px are unchanged, no column goes to the painter, and the
\* state becomes DONE.
C5_BeyondWidthPaintsNothing ==
    [][\A endtime \in EndTimes, val \in Magnitudes(num_bands) :
          (m_cr /\ SpectrumStep(endtime, val)
                /\ PixelOffset(m_options, endtime) >= m_options.width) =>
             /\ m_surface' = m_surface
             /\ last_px' = last_px
             /\ m_sample_no' = m_sample_no
             /\ last_cols' = {}
             /\ m_state' = STATE_DONE]_vars

C5_Witness ==
    /\ m_state = STATE_DONE
    /\ stream_pos > 0
    /\ PixelOffset(m_options, stream_pos) >= m_options.width
    /\ m_options.width > 0

\* C6 (as claimed): every column handed to the painter lies in [0, width).
C6_ColumnsInsideCanvas ==
    \A c \in last_cols : 0 <= c /\ c < m_options.width

\* C7 (as claimed): once a column has been painted in a run, the cursor
\* last_px never moves back to a lower column during that run.
C7_CursorNeverMovesBack ==
    [][(SameRun /\ painted # {}) => last_px' >= last_px]_vars

\* C8: a painted spectrum message whose computed offset equals last_px goes
\* to column last_px + 1, and no painted message lands on the column of the
\* message painted before it.
C8_TieMovesToNextColumn ==
    [][\A endtime \in EndTimes, val \in Magnitudes(num_bands) :
          (SpectrumStep(endtime, val) /\ last_cols' # {}) =>
             /\ last_px' # last_px
             /\ last_px' \in last_cols'
             /\ PixelOffset(m_options, endtime) = last_px =>
                   last_px' = last_px + 1]_vars

C8_Witness ==
    /\ last_cols = {last_px}
    /\ stream_pos > 0
    /\ last_px = PixelOffset(m_options, stream_pos) + 1

\* the columns painted in this run form one interval
NoGaps == \A c \in painted, d \in painted : \A e \in c..d : e \in painted

\* column c of the canvas shows what the painter draws for val
ColumnShows(c, val) ==
    \A i \in 0..(Min(Len(val), m_options.height) - 1) :
       val[i + 1] > m_options.noise_floor =>
          /\ PixelIndex(m_options, i, c) \in DOMAIN m_surface
          /\ m_surface[PixelIndex(m_options, i, c)]
                = Argb(AlphaByte(val[i + 1], m_options.noise_floor,
                                 flt_eval))

\* C9: a spectrum message painted more than one column past last_px paints
\* every column in between with its own magnitudes, and the columns painted
\* in a run never have a gap.
C9_GapsAreFilled ==
    [][/\ NoGaps'
       /\ \A endtime \in EndTimes, val \in Magnitudes(num_bands) :
             (SpectrumStep(endtime, val) /\ last_cols' # {}
                  /\ last_px # -1) =>
                \A c \in (last_px + 1)..(last_px' - 1) :
                   c \in last_cols' /\ ColumnShows(c, val)']_vars

C9_Witness ==
    /\ Cardinality(last_cols) >= 2
    /\ last_px \in last_cols
    /\ last_px < m_options.width

\* C10: handling a pipeline error message sets the pipeline to NULL and
\* ends the process with a non-zero status, leaving the run state where it
\* was and writing no image; nothing happens after the process has ended.
C10_ErrorAborts ==
    [][/\ ErrorStep =>
             /\ pipeline_state' = "NULL"
             /\ exit_code' \notin {EXIT_NONE, EXIT_OK}
             /\ m_state' = m_state
             /\ image_written' = image_written
       /\ exit_code # EXIT_NONE => UNCHANGED vars]_vars

C10_Witness ==
    /\ error_what = "debug"
    /\ exit_code = EXIT_ABORT
    /\ pipeline_state = "NULL"
    /\ m_state = STATE_GENERATE
    /\ image_written = 0

\* C11 (as claimed): when the duration pass ends without a stream duration
\* having been obtained (the query failed, or was never made), the run is
\* aborted with a non-zero status and the state stays DURATION.
C11_NoDurationIsFatal ==
    [][(m_state = STATE_DURATION /\ m_duration = 0 /\ EosStep) =>
          /\ exit_code' \notin {EXIT_NONE, EXIT_OK}
          /\ m_state' = STATE_DURATION]_vars

\* the step is a handler that calls state_done() with pipeline results in
HandlerStep(in) == Eos(in) \/ AsyncDone(in) \/ PadAdded(TRUE, in)

\* C12: when the pause or the seek made on entering SEEK fails, the pipeline
\* is set to NULL and the process ends with a non-zero status in state SEEK,
\* with no canvas and no image; the state never changes after that.
C12_ResetFailureIsFatal ==
    [][/\ \A failed \in {"pause_ok", "seek_ok"}, rate \in SamplingRates :
             (m_state = STATE_DURATION
                  /\ HandlerStep(Input(failed, rate))) =>
                /\ pipeline_state' = "NULL"
                /\ exit_code' \notin {EXIT_NONE, EXIT_OK}
                /\ m_state' = STATE_SEEK
                /\ ~m_cr'
                /\ image_written' = 0
       /\ (exit_code # EXIT_NONE /\ m_state = STATE_SEEK) =>
             (m_state' = STATE_SEEK /\ image_written' = 0)]_vars

C12_Witness ==
    /\ error_what = "Unable to seek to the beginning"
    /\ m_state = STATE_SEEK
    /\ pipeline_state = "NULL"
    /\ exit_code = EXIT_ABORT
    /\ ~m_cr
    /\ image_written = 0

\* C13: when the link of the audio pad fails, in on_pad_added or on entering
\* GENERATE, the process ends with a non-zero status; the state is the one
\* the link was attempted in (unchanged for on_pad_added, GENERATE for
\* generate_sonogram) and does not change afterwards.
C13_PadLinkFailureIsFatal ==
    [][/\ \A rate \in SamplingRates :
             LET in == Input("pad_link_ok", rate)
             IN  /\ PadAdded(TRUE, in) =>
                       /\ exit_code' \notin {EXIT_NONE, EXIT_OK}
                       /\ m_state' = m_state
                 /\ (m_state = STATE_SEEK /\ (Eos(in) \/ AsyncDone(in))) =>
                       /\ exit_code' \notin {EXIT_NONE, EXIT_OK}
                       /\ m_state' = STATE_GENERATE
                       /\ image_written' = 0
       /\ error_what = "unable to link pad" => m_state' = m_state]_vars

C13_Witness ==
    /\ error_what = "unable to link pad"
    /\ exit_code = EXIT_ABORT
    /\ m_state = STATE_GENERATE
    /\ m_cr
    /\ image_written = 0

\* C14: an info or warning message, or an element message that is neither
\* "spectrum" nor "level", changes nothing but the count of such messages:
\* the process keeps running in the same state with the same canvas, column
\* cursor and level track.
C14_UnhandledChangesNothing ==
    [][ignored' # ignored =>
          /\ exit_code' = EXIT_NONE
          /\ UNCHANGED <<m_state, m_surface, last_px, m_sample_no, painted,
                         m_levels, m_peak_rms, m_min_rms, exit_code,
                         error_what, m_mainloop, pipeline_state,
                         image_written, m_options, heap_corrupt>>]_vars

C14_Witness ==
    /\ ignored > 0
    /\ exit_code = EXIT_NONE
    /\ m_state = STATE_GENERATE
    /\ painted # {}
    /\ DOMAIN m_levels # {}

\* the step enters DONE
EntersDone == SameRun /\ m_state # STATE_DONE /\ m_state' = STATE_DONE

\* the step is a handler that can call state_done() in GENERATE, given the
\* pipeline results in
DoneStep(in) ==
    \/ HandlerStep(in)
    \/ \E endtime \in EndTimes, val \in Magnitudes(num_bands) :
          Spectrum(endtime, val, in)

C16_SameNotificationsSameCanvas ==
    (iteration > 0 /\ m_mainloop = "quit"
         /\ replayed = Len(notifications)) => Canvas = first_canvas

\* the state of SpecPainter's start is one the whole program reaches
PainterStartReached ==
    /\ m_state = STATE_GENERATE
    /\ m_cr
    /\ m_surface = [j \in 0..(m_options.width * m_options.height - 1) |-> Blank]
    /\ m_options.width # DEFAULT_WIDTH
    /\ m_prerolled /\ m_decoder_pad
    /\ pipeline_state = "PLAYING"
    /\ m_mainloop = "running"
    /\ m_duration = 0
    /\ m_sample_no = 0
    /\ async_done_handlers = 0
    /\ duration_changed_handlers = 1
    /\ last_px = -1
    /\ stream_pos = 0

\* the pixel of band i in the column of the last painter call, and the
\* magnitude the call carried for it
CallPixel(i) == PixelIndex(m_options, i, painter_call[2])
CallValue(i) == painter_call[1][i + 1]
CallBands == 0..(Min(Len(painter_call[1]), m_options.height) - 1)

\* C17: a painter call leaves the pixel of every band whose magnitude is at
\* or below the noise floor exactly as it was, whatever the column and the
\* magnitude list.
C17_FloorBandsUntouched ==
    [][\A i \in CallBands' :
          (CallValue(i)' <= m_options.noise_floor
               /\ CallPixel(i)' \in DOMAIN m_surface) =>
             m_surface'[CallPixel(i)'] = m_surface[CallPixel(i)']]_vars

C17_Witness ==
    /\ painter_call # << >>
    /\ \E i \in CallBands :
          /\ CallValue(i) <= m_options.noise_floor
          /\ CallPixel(i) \in DOMAIN m_surface
          /\ m_surface[CallPixel(i)] # Blank

\* C18: with a width configured, the canvas that exists from GENERATE on
\* (and that draw_sonogram() copies into the image) is exactly that wide,
\* whatever duration was measured and however few columns were painted.
C18_ConfiguredWidthIsCanvasWidth ==
    (options.width # DEFAULT_WIDTH /\ m_cr) =>
        /\ m_options.width = options.width
        /\ DOMAIN m_surface = 0..(options.width * m_options.height - 1)

C18_Witness ==
    /\ options.width # DEFAULT_WIDTH
    /\ m_state = STATE_DONE
    /\ image_written = 1
    /\ m_duration > 0
    /\ painted # {}
    /\ Cardinality(painted) < options.width
    /\ m_options.width = options.width

\* C19 (as claimed): with no width and no duration configured, every spectrum
\* message whose end time is within the measured stream duration is painted.
C19_DerivedWidthCoversStream ==
    [][\A endtime \in EndTimes, val \in Magnitudes(num_bands) :
          (options.width = DEFAULT_WIDTH /\ options.duration = DEFAULT_DURATION
               /\ m_cr /\ m_duration > 0 /\ endtime <= m_duration
               /\ SpectrumStep(endtime, val)) =>
             last_cols' # {}]_vars

\* C20: when a duration is configured, the constructed App has
\* width = duration x resolution; with a width configured too, the width is
\* kept and the resolution becomes width / duration whatever resolution was
\* supplied; with the duration alone, the resolution is kept and the width
\* becomes duration x resolution.
C20_DurationFixesWidth ==
    (app_constructed /\ options.duration # DEFAULT_DURATION) =>
        /\ m_options.duration = options.duration
        /\ m_options.width * m_options.res_den
              = m_options.duration * m_options.res_num
        /\ options.width # DEFAULT_WIDTH =>
              /\ m_options.width = options.width
              /\ m_options.res_num * options.duration
                    = options.width * m_options.res_den
        /\ options.width = DEFAULT_WIDTH =>
              /\ m_options.res_num * options.res_den
                    = options.res_num * m_options.res_den
              /\ m_options.width * options.res_den
                    = options.duration * options.res_num

C20_Witness ==
    /\ app_constructed
    /\ options.duration # DEFAULT_DURATION
    /\ options.width # DEFAULT_WIDTH
    /\ options.width # options.duration * options.res_num
    /\ m_options.res_num * options.duration
          = options.width * m_options.res_den

(* ------------------------------- C21 ----------------------------------- *)
\* C21: with the grid enabled, a run that reaches DONE with an empty level
\* track never reads the last entry of the empty track and is not killed.
C21_EmptyTrackNeverRead ==
    (m_options.draw_grid /\ DOMAIN m_levels = {})
        => (~invalid_read /\ exit_code # EXIT_SIGSEGV)

(* ------------------------------- C22 ----------------------------------- *)
\* The notification the run is waiting for in its current state: an audio
\* pad and the end of preroll in START (either order), end-of-stream in
\* DURATION, the end of the seek in SEEK, end-of-stream or a magnitude
\* message at or beyond the width in GENERATE.
Awaited(in) ==
    \/ m_state = STATE_START /\ ~m_decoder_pad /\ PadAdded(TRUE, in)
    \/ m_state = STATE_START /\ ~m_prerolled /\ AsyncDone(in)
    \/ m_state = STATE_DURATION /\ Eos(in)
    \/ m_state = STATE_SEEK /\ AsyncDone(in)
    \/ m_state = STATE_GENERATE /\ Eos(in)
    \/ /\ m_state = STATE_GENERATE
       /\ \E endtime \in EndTimes, val \in Magnitudes(num_bands) :
             /\ PixelOffset(m_options, endtime) >= m_options.width
             /\ Spectrum(endtime, val, in)

Deliver ==
    \E in \in InputsFor(m_state, {"pad_link_ok"}) :
        Awaited(in) /\ UNCHANGED hist

\* one run (no --benchmark) at the largest resolution, with the width
\* configured and with the width derived from the duration
LiveOptions ==
    [height : Heights, width : {0, MaxWidth}, res_num : {MaxResolution},
     res_den : {1}, duration : Durations, noise_floor : {DEFAULT_NOISE_FLOOR},
     max_frequency : MaxFrequencies, draw_grid : {FALSE}, benchmark : {0}]

InitLive == InitOf(LiveOptions)

\* The program on a pipeline that eventually delivers what the run awaits.
SpecLive == InitLive /\ [][Next]_vars /\ WF_vars(Deliver)

\* the loop has been told to quit, or the process has ended
Terminated == m_mainloop = "quit" \/ exit_code # EXIT_NONE

\* the process ended in g_error() or was killed by a signal
FatalError == exit_code \in {EXIT_ABORT, EXIT_SIGFPE, EXIT_SIGSEGV}

\* C22: the run ends only in DONE or by a fatal error, and on a pipeline that
\* eventually delivers every awaited notification a run whose loop has
\* started eventually reaches DONE or ends by a fatal error.
C22_TerminatesByDoneOrFatal ==
    /\ [](Terminated => (m_state = STATE_DONE \/ FatalError))
    /\ (m_mainloop = "running") ~> (m_state = STATE_DONE \/ FatalError)

C22_Witness ==
    /\ m_state = STATE_DONE
    /\ m_mainloop = "quit"
    /\ image_written = 1
    /\ async_done_handlers = 0
    /\ stream_pos > 0

(* ------------------------------- C23 ----------------------------------- *)
\* C23: in every state SEEK, GENERATE or DONE the stored duration is a value
\* the pipeline reported for the stream.
C23_DurationKnownAfterDuration ==
    m_state \in {STATE_SEEK, STATE_GENERATE, STATE_DONE}
        => m_duration \in StreamDurations

(* ------------------------------- C24 ----------------------------------- *)
\* C24 as claimed: in every state SEEK the canvas exists.
C24_CanvasInSeek == m_state = STATE_SEEK => m_cr

\* C24: in every state SEEK there is no canvas yet, and the canvas comes
\* into existence in the step that enters GENERATE and in no other.
C24_CanvasOnEnteringGenerate ==
    /\ [](m_state = STATE_SEEK => ~m_cr)
    /\ [][(~m_cr /\ m_cr')
            <=> (SameRun /\ m_state # STATE_GENERATE
                    /\ m_state' = STATE_GENERATE)]_vars

C24_Witness ==
    /\ m_state = STATE_GENERATE
    /\ m_cr
    /\ m_sample_no = 0
    /\ exit_code = EXIT_NONE
    /\ async_done_handlers = 0

(* ------------------------------- C25 ----------------------------------- *)
\* C25: a canvas exists exactly in the states GENERATE and DONE, and a
\* magnitude message handled without a canvas changes nothing but the
\* position of the stream.
C25_CanvasIffGenerating ==
    /\ [](m_cr <=> m_state \in {STATE_GENERATE, STATE_DONE})
    /\ [][\A endtime \in EndTimes, val \in Magnitudes(num_bands) :
            (SpectrumStep(endtime, val) /\ ~m_cr)
                => UNCHANGED <<m_state, m_sample_no, m_surface, painted,
                               last_px, m_cr, image_written, exit_code>>]_vars

C25_Witness ==
    /\ m_state = STATE_DURATION
    /\ ~m_cr
    /\ stream_pos > 0
    /\ exit_code = EXIT_NONE

(* ------------------------------- C26 ----------------------------------- *)
\* C26: a painter call for a column of the canvas (0 <= offset < width) with
\* n bands changes only pixels of that column, only in the rows
\* height-1-i for i < min(n, height), all of them rows of the canvas; it
\* writes the pixel of every such band that is above the floor, and writes
\* nothing outside the buffer.
C26_PaintTouchesOwnColumn ==
    [][LET val == painter_call'[1]
           offset == painter_call'[2]
           h == m_options.height
           w == m_options.width
           size == Min(Len(val), h)
       IN  offset < w =>
             /\ DOMAIN m_surface' = DOMAIN m_surface
             /\ heap_corrupt' = heap_corrupt
             /\ \A j \in DOMAIN m_surface :
                   m_surface'[j] # m_surface[j] =>
                      /\ j % w = offset
                      /\ j \div w \in 0..(h - 1)
                      /\ \E i \in 0..(size - 1) : j \div w = h - 1 - i
             /\ \A i \in 0..(size - 1) :
                   val[i + 1] > m_options.noise_floor =>
                      m_surface'[(h - 1 - i) * w + offset]
                         = Argb(AlphaByte(val[i + 1],
                                          m_options.noise_floor, flt_eval))
      ]_vars

\* a list longer than the canvas is high was painted at a column of the
\* canvas, and its band height-1 shows in the top row
C26_Witness ==
    /\ painter_call # << >>
    /\ painter_call[2] < m_options.width
    /\ Len(painter_call[1]) > m_options.height
    /\ m_surface[painter_call[2]] # Blank
    /\ ~heap_corrupt

(* ------------------------------- C27 ----------------------------------- *)
\* the painter has just been called with FourBands at column 0 of a canvas
\* four rows high, with the noise floor at -100 dB
FourBandsPainted ==
    /\ painter_call' = <<FourBands, 0>>
    /\ m_options.height = Len(FourBands)
    /\ m_options.noise_floor = DEFAULT_NOISE_FLOOR

\* C27 as claimed: the -50 dB band (row 2) is mapped by the linear segment,
\* 13/16 of full scale.
C27_MidBandLinear ==
    [][FourBandsPainted =>
          m_surface'[2 * m_options.width] = Argb(LinearByte(50, 100, flt_eval))]_vars

\* C27: the -50 dB band (row 2, shade 1/2 < TX) is mapped by the quadratic
\* segment, 85/144 of full scale, byte 150.
C27_MidBandQuadratic ==
    [][FourBandsPainted =>
          /\ m_surface'[2 * m_options.width] = Argb(QuadraticByte(50, 100))
          /\ m_surface'[2 * m_options.width][4] = 150
          /\ QuadraticByte(50, 100) # LinearByte(50, 100, flt_eval)]_vars

C27_Witness ==
    /\ painter_call = <<FourBands, 0>>
    /\ m_options.height = Len(FourBands)
    /\ m_sample_no = 1
    /\ m_surface[2 * m_options.width] # Blank
    /\ m_surface[3 * m_options.width] = Blank

(* ------------------------------- C28 ----------------------------------- *)
\* C28: in exact arithmetic the two segments of the alpha curve meet at the
\* breakpoint, k * TX^2 = m * TX + b = TY, and a band painted with its shade
\* exactly at TX gets the byte of TY.
C28_ContinuousAtBreakpoint ==
    /\ RMul(k, RMul(TX, TX)) = TY
    /\ RAdd(RMul(m, TX), b) = TY
    /\ (/\ painter_call # << >>
        /\ painter_call[1] = AtBreakpoint
        /\ painter_call[2] < m_options.width)
          => /\ m_surface[CallPixel(0)] = Argb(ToByte(TY[1], TY[2]))
             /\ QuadraticByte(TX[1], TX[2])
                   = LinearByte(TX[1], TX[2], flt_eval)

C28_Witness ==
    /\ painter_call # << >>
    /\ painter_call[1] = AtBreakpoint
    /\ painter_call[2] < m_options.width
    /\ m_surface[CallPixel(0)][4] = 216

(* ------------------------------- C29 ----------------------------------- *)
\* C29: every band above the noise floor that a painter call writes at a
\* column of the canvas gets an alpha byte in 0..255 that is 255 when the
\* magnitude is 0 dB or more and is not smaller than the byte of a quieter
\* band of the same call, and its other three bytes are 0.
C29_AlphaByteRange ==
    [][\A i \in CallBands' :
          (/\ CallValue(i)' > m_options.noise_floor
           /\ painter_call'[2] < m_options.width) =>
             LET px == m_surface'[CallPixel(i)']
             IN  /\ px[4] \in 0..255
                 /\ px[1] = 0 /\ px[2] = 0 /\ px[3] = 0
                 /\ CallValue(i)' >= 0 => px[4] = 255
                 /\ \A j \in CallBands' :
                       (/\ CallValue(j)' > m_options.noise_floor
                        /\ CallValue(j)' <= CallValue(i)')
                          => m_surface'[CallPixel(j)'][4] <= px[4]]_vars

(* ------------------------------- C30 ----------------------------------- *)
\* the step is the handling of the level message (timestamp, rms); a level
\* message that leaves the track as it was changes nothing at all
LevelStep(timestamp, rms) ==
    /\ (m_levels' # m_levels \/ recorded' # recorded)
    /\ stream_pos' = stream_pos
    /\ \E in \in InputsFor(m_state, {}) : Level(timestamp, rms, in)

\* the largest of the per-channel values of a level message
LoudestChannel(rms) ==
    CHOOSE x \in {rms[i] : i \in DOMAIN rms} :
        \A i \in DOMAIN rms : x >= rms[i]

\* C30 as claimed: the value recorded at the timestamp of a level message is
\* the largest per-channel RMS value, also when all are below the floor.
C30_RecordsLoudestChannel ==
    [][\A timestamp \in LevelTimes, rms \in RmsArrays :
          LevelStep(timestamp, rms) =>
             m_levels'[timestamp] = LoudestChannel(rms)]_vars

\* C30: the value recorded at the timestamp of a level message is the
\* largest per-channel RMS value or the noise floor, whichever is larger.
C30_RecordsLoudestOrFloor ==
    [][\A timestamp \in LevelTimes, rms \in RmsArrays :
          LevelStep(timestamp, rms) =>
             /\ timestamp \in DOMAIN m_levels'
             /\ m_levels'[timestamp]
                   = Max(m_options.noise_floor, LoudestChannel(rms))]_vars

\* one message with every channel below the floor and one above it have
\* been recorded
C30_Witness ==
    /\ \E t \in DOMAIN m_levels : m_levels[t] = m_options.noise_floor
    /\ \E t \in DOMAIN m_levels : m_levels[t] > m_options.noise_floor
    /\ m_state = STATE_GENERATE

(* ------------------------------- C31 ----------------------------------- *)
\* the largest and the smallest element of a non-empty set of levels
Largest(S) == CHOOSE x \in S : \A y \in S : x >= y
Smallest(S) == CHOOSE x \in S : \A y \in S : x <= y

\* C31: once a level message has been recorded, the running peak and minimum
\* are the largest and the smallest value recorded so far (the same value
\* after the first message), and every value in the track lies between them.
C31_PeakAndMinBracketTrack ==
    recorded # {} =>
       /\ m_peak_rms = Largest(recorded)
       /\ m_min_rms = Smallest(recorded)
       /\ Cardinality(recorded) = 1 => m_peak_rms = m_min_rms
       /\ \A t \in DOMAIN m_levels :
             m_min_rms <= m_levels[t] /\ m_levels[t] <= m_peak_rms

\* a timestamp was recorded twice: both values count, one is in the track
C31_Witness ==
    /\ Cardinality(recorded) = 2
    /\ Cardinality(DOMAIN m_levels) = 1
    /\ m_peak_rms > m_min_rms

(* ------------------------------- C32 ----------------------------------- *)
\* C32: the level track is empty as long as the run is in START, DURATION
\* or SEEK, and no step taken in DONE changes it.
C32_TrackOnlyGrowsInGenerate ==
    /\ [](m_state \in {STATE_START, STATE_DURATION, STATE_SEEK}
             => DOMAIN m_levels = {})
    /\ [][m_state = STATE_DONE => m_levels' = m_levels]_vars

\* main() has returned after a run that recorded levels: the track is intact
C32_Witness ==
    /\ m_state = STATE_DONE
    /\ exit_code = EXIT_OK
    /\ Cardinality(DOMAIN m_levels) = 2
    /\ recorded # {}

(* ------------------------------- C33 ----------------------------------- *)
\* C33: the band count set on the spectrum element is
\* floor((rate / 2) / (max_frequency / height)) with the exact quotient
\* max_frequency / height, i.e. floor(rate * height / (2 * max_frequency)).
C33_BandCountExact ==
    (m_state = STATE_GENERATE /\ pipeline_state = "PLAYING")
        => num_bands = (m_sampling_rate * m_options.height)
                           \div (2 * m_options.max_frequency)

(* ------------------------------- C34 ----------------------------------- *)
\* C34: whenever start_pipeline computes the band count (it has just read
\* the sampling rate), the divisor int(max_frequency / height) is not zero.
C34_BandDivisorNotZero ==
    [][(m_sampling_rate = 0 /\ m_sampling_rate' # 0) =>
          /\ TruncDiv(m_options.max_frequency, m_options.height) # 0
          /\ exit_code' # EXIT_SIGFPE]_vars

(* ------------------------------ C35 ------------------------------------ *)
\* the image has been composed at 10 pixels per second, 50 pixels wide
GridScenario ==
    /\ m_state = STATE_DONE
    /\ m_options.draw_grid
    /\ m_options.res_num = 10 * m_options.res_den
    /\ m_options.width = 50

\* C35 as claimed: at 10 pixels per second and a width of 50 the time axis
\* has the five marks s = 1..5 at x = 10 * s and every mark carries a text
C35_FiveMarksAllLabelled ==
    GridScenario =>
        /\ {<<tick.s, tick.x>> : tick \in time_axis}
               = {<<s, 10 * s>> : s \in 1..5}
        /\ \A tick \in time_axis : tick.drawText

\* C35: at 10 pixels per second and a width of 50 the time axis has the five
\* marks s = 1..5 at x = 10 * s and none of them carries a text: at a
\* resolution of at most 10 only every tenth second is labelled.  In general
\* the mark of second s carries a text iff s is a multiple of the interval
\* (10 up to 10 px/s, 5 up to 30 px/s, else 1).
C35_FiveMarksNoLabel ==
    /\ GridScenario =>
           /\ {<<tick.s, tick.x>> : tick \in time_axis}
                  = {<<s, 10 * s>> : s \in 1..5}
           /\ \A tick \in time_axis : ~tick.drawText
    /\ (m_state = STATE_DONE /\ m_options.draw_grid) =>
           \A tick \in time_axis :
              tick.drawText <=>
                 tick.s % (IF m_options.res_num <= 10 * m_options.res_den
                           THEN 10
                           ELSE IF m_options.res_num <= 30 * m_options.res_den
                                THEN 5 ELSE 1) = 0

\* the image of the scenario has been written
C35_Witness ==
    /\ GridScenario
    /\ image_written = 1
    /\ Cardinality(time_axis) = 5

(* ------------------------------ C36 ------------------------------------ *)
\* C36: the first magnitude message painted in a run is painted at its own
\* column, int(seconds * resolution), and at no other: nothing is backfilled
\* before a column of this run has been painted
C36_FirstPaintOnlyOwnColumn ==
    [][(painted = {} /\ painted' # {}) =>
          painted' = {PixelOffset(m_options, stream_pos')}]_vars

(* ------------------------------ C37 ------------------------------------ *)
\* C37: in DURATION, GENERATE and DONE no async-done handler is connected,
\* so an async-done message cannot advance the state from there
C37_NoAsyncDoneHandlerOutsideWait ==
    (exit_code = EXIT_NONE
       /\ m_state \in {STATE_DURATION, STATE_GENERATE, STATE_DONE})
        => async_done_handlers = 0

(* ------------------------------ C38 ------------------------------------ *)
\* C38: the thumbnailer paints no message at a column index at or beyond
\* the thumbnail size (the width of its surface)
C38_NoColumnBeyondSize ==
    \A column \in soundprint.columns : column < soundprint.m_thumbnail_size
====
